---------------------------- MODULE Spec2Model ----------------------------
(***************************************************************************)
(* Server actions of the DIUACM admin application: the blog actions        *)
(* (createBlog, updateBlog, deleteBlog, getBlog, getPaginatedBlogs,        *)
(* generatePresignedUrl) and the account action changePassword.            *)
(*                                                                         *)
(* Every action of Next is one complete call of a server action: the       *)
(* permission or session lookup, the schema validation, every store query  *)
(* and the cache invalidation happen inside it.  The variables `op`,       *)
(* `args`, `caller`, `result`, `revalidated`, `s3Keys` and `before`        *)
(* record the call that has just returned, so that a state predicate can   *)
(* relate its inputs, its envelope and its effect on the store.            *)
(*                                                                         *)
(* Strings are TLC strings: Len, SubSeq and \o act on them as on           *)
(* sequences of characters.  An optional value (`x?: T`, `T | null`) is    *)
(* the empty sequence when absent and <<v>> when present.                  *)
(***************************************************************************)
EXTENDS Integers, Sequences, FiniteSets, Bags, TLC

VARIABLES
    blogPosts,    \* rows of the blog_posts table
    blogSeq,      \* the serial that numbers the next inserted post
    users,        \* rows of the users table
    now,          \* the store's clock (defaultNow / new Date())
    op,           \* name of the server action that has just returned
    args,         \* its arguments
    caller,       \* the principal of that request: session email, capability
    result,       \* the envelope it returned
    revalidated,  \* the paths it passed to revalidatePath
    s3Keys,       \* the storage keys it had signed
    before,       \* blogPosts and users as they were when it was called
    thrown,       \* what its promise rejected with, absent when it returned
    calls,        \* the calls suspended at an await on the store (a bag)
    dialog,       \* the mounted search dialog component, "none" before mount
    open,         \* open / isOpen
    searchQuery,  \* the text of the search input
    debouncedSearch,  \* useDebounce(searchQuery, 500)
    isSearching,  \* the searching flag
    isAdding,     \* isAdding / isAttaching: the item whose add is shown busy
    searchResults,    \* the displayed result list
    eventWeights, \* the entered weights, one [id, value] per event
    searches,     \* search requests in flight, in the order of their issue
    adds,         \* add / attach requests in flight, in the order of issue
    ev,           \* the dialog step that has just run, and what it raised
    pristine      \* history: the dialog was opened and no query typed since

serverVars == <<blogPosts, blogSeq, users, now, op, args, caller, result,
                revalidated, s3Keys, before, thrown, calls>>

dialogVars == <<dialog, open, searchQuery, debouncedSearch, isSearching,
                isAdding, searchResults, eventWeights, searches, adds, ev,
                pristine>>

vars == <<serverVars, dialogVars>>

-----------------------------------------------------------------------------
(* Bounds of the model *)

\* the clock stops the model after this many stamped writes
MaxClock == 3
\* getPaginatedBlogs is called with page in 0..MaxPage
MaxPage == 2
\* getPaginatedBlogs is called with pageSize in 1..MaxPageSize
MaxPageSize == 2
\* deleteBlog, updateBlog and getBlog are called with id in 1..MaxId
MaxId == 2

-----------------------------------------------------------------------------
(* Optional values and the result envelope *)

undefined == <<>>
null == <<>>
Some(v) == <<v>>

\* JavaScript truthiness of an optional string: `s && s !== ""`, `s || d`
Truthy(s) == s # undefined /\ s[1] # ""

\* type ActionResult<T> = { success; data?; error?; message? }
ActionResult(success, data, error, message) ==
    [success |-> success, data |-> data, error |-> error, message |-> message]

Failure(error) == ActionResult(FALSE, undefined, Some(error), undefined)

\* what a database driver throws: an Error with a message
DbError(message) == [name |-> "Error", message |-> message]

\* String.prototype.includes
Includes(s, sub) ==
    \E i \in 1..(Len(s) - Len(sub) + 1) : SubSeq(s, i, i + Len(sub) - 1) = sub

\* String.prototype.startsWith
StartsWith(s, prefix) ==
    Len(s) >= Len(prefix) /\ SubSeq(s, 1, Len(prefix)) = prefix

handleDbError(error) ==
    IF error.name = "Error" /\ Includes(error.message, "Duplicate entry")
    THEN Failure("A blog with this title or slug already exists")
    ELSE Failure("Something went wrong. Please try again.")

\* mutant: the permission check never reports an error
validatePermission_never(allowed) == null

\* validatePermission: hasPermission("manage_blog_posts") is `allowed`
validatePermission(allowed) ==
    IF ~allowed
    THEN Some(Failure("You don't have permission to manage blog posts"))
    ELSE null

\* the catch block's ZodError branch of createBlog and updateBlog
BlogZodError(issues) ==
    Failure(IF issues # <<>> /\ issues[1] # ""
            THEN issues[1]
            ELSE "Please check the form for errors.")

-----------------------------------------------------------------------------
(* Validation layer: ./schemas/blog (blogFormSchema) *)

Issue(failed, message) == IF failed THEN <<message>> ELSE <<>>

BlogStatuses == {"draft", "published"}

\* the issues of a blog form, in the order of the schema's fields
blogFormSchema_issues(values) ==
    Issue(values.title = "", "Title is required")
    \o Issue(values.slug = "", "Slug is required")
    \o Issue(values.author = "", "Author is required")
    \o Issue(values.content = "", "Content is required")
    \o Issue(values.status \notin BlogStatuses, "Invalid status")

\* blogFormSchema.parse: the parsed fields, or a ZodError carrying the issues
blogFormSchema_parse(values) ==
    LET issues == blogFormSchema_issues(values)
    IN  [threw |-> issues # <<>>, issues |-> issues, data |-> values]

-----------------------------------------------------------------------------
(* The blog_posts table *)

\* new Date(isoString): the instant a date string denotes (days since epoch)
NewDate(s) ==
    CASE s = "2025-01-01" -> [time |-> 20089]
      [] s = "2025-06-30" -> [time |-> 20269]
      [] OTHER -> [time |-> -1]

\* the Date the store's clock reads at tick t
ClockDate(t) == [time |-> 30000 + t]

\* columns the table fills in on insert: serial id, defaultNow() timestamps
blogPostsDefaults(id, t) ==
    [id |-> id, createdAt |-> ClockDate(t), updatedAt |-> ClockDate(t)]

\* columns the table refreshes on every update of a row
blogPostsOnUpdate(t) == [updatedAt |-> ClockDate(t)]

\* { ...a, ...b }
Spread(a, b) ==
    [f \in (DOMAIN a) \cup (DOMAIN b) |-> IF f \in DOMAIN b THEN b[f] ELSE a[f]]

\* what the store's driver throws when a unique index refuses a row.  The
\* query builder the actions use (ilike, insert(...).returning(...)) is the
\* PostgreSQL one, and this is PostgreSQL's wording of error 23505.
UniqueViolation ==
    DbError("duplicate key value violates unique constraint \"blog_posts_slug_unique\"")

\* mutant: the table has no uniqueness constraint
blogPostsUnique_none(posts, row) == TRUE

\* the store's own uniqueness constraint on an inserted or updated row
blogPostsUnique(posts, row) ==
    \A p \in posts : p.id # row.id => p.slug # row.slug

\* db.insert(blogPosts).values(dbValues).returning({ id })
dbInsert(db, dbValues) ==
    LET t   == db.now + 1
        row == Spread(dbValues, blogPostsDefaults(db.blogSeq, t))
    IN  IF blogPostsUnique(db.blogPosts, row)
        THEN [threw |-> FALSE, error |-> undefined, id |-> row.id,
              db |-> [blogPosts |-> db.blogPosts \cup {row},
                      blogSeq |-> db.blogSeq + 1, now |-> t]]
        ELSE [threw |-> TRUE, error |-> Some(UniqueViolation),
              id |-> 0, db |-> db]

\* db.update(blogPosts).set(dbValues).where(eq(blogPosts.id, id))
dbUpdate(db, id, dbValues) ==
    LET t        == db.now + 1
        patch(p) == Spread(Spread(p, dbValues), blogPostsOnUpdate(t))
        hit      == {p \in db.blogPosts : p.id = id}
        rest     == db.blogPosts \ hit
    IN  IF \A p \in hit : blogPostsUnique(rest, patch(p))
        THEN [threw |-> FALSE, error |-> undefined,
              db |-> [blogPosts |-> rest \cup {patch(p) : p \in hit},
                      blogSeq |-> db.blogSeq,
                      now |-> IF hit = {} THEN db.now ELSE t]]
        ELSE [threw |-> TRUE, error |-> Some(UniqueViolation),
              db |-> db]

\* mutant: the delete has lost its where clause
dbDelete_all(db, id) == [db EXCEPT !.blogPosts = {}]

\* db.delete(blogPosts).where(eq(blogPosts.id, id))
dbDelete(db, id) ==
    [db EXCEPT !.blogPosts = {p \in db.blogPosts : p.id # id}]

\* mutant: the pre-check of createBlog compares the slug only
selectByTitleOrSlug_slugOnly(posts, title, slug) ==
    {p \in posts : p.slug = slug}

\* select ... where or(eq(title, t), eq(slug, s)) limit 1          (createBlog)
selectByTitleOrSlug(posts, title, slug) ==
    {p \in posts : p.title = title \/ p.slug = slug}

\* mutant: the pre-check of updateBlog compares the slug only
selectDuplicateOf_slugOnly(posts, id, title, slug) ==
    {p \in posts : p.slug = slug /\ p.id # id}

\* select ... where and(or(eq(title), eq(slug)), id != ${id}) limit 1 (updateBlog)
selectDuplicateOf(posts, id, title, slug) ==
    {p \in posts : (p.title = title \/ p.slug = slug) /\ p.id # id}

\* mutant: the lookup by id has lost its where clause
selectById_any(posts, id) == posts

\* select ... where eq(blogPosts.id, id) limit 1
selectById(posts, id) == {p \in posts : p.id = id}

\* mutant: the publish date is dropped (`!== ""` written as `=== ""`)
dbValuesOf_noDate(validatedFields) ==
    [title         |-> validatedFields.title,
     slug          |-> validatedFields.slug,
     author        |-> validatedFields.author,
     content       |-> validatedFields.content,
     status        |-> validatedFields.status,
     featuredImage |-> IF Truthy(validatedFields.featuredImage)
                       THEN validatedFields.featuredImage ELSE null,
     publishedAt   |-> null,
     isFeatured    |-> IF validatedFields.isFeatured # undefined
                          /\ validatedFields.isFeatured[1]
                       THEN TRUE ELSE FALSE]

\* "Convert form types to database types": the dbValues of createBlog/updateBlog
dbValuesOf(validatedFields) ==
    [title         |-> validatedFields.title,
     slug          |-> validatedFields.slug,
     author        |-> validatedFields.author,
     content       |-> validatedFields.content,
     status        |-> validatedFields.status,
     featuredImage |-> IF Truthy(validatedFields.featuredImage)
                       THEN validatedFields.featuredImage ELSE null,
     publishedAt   |-> IF Truthy(validatedFields.publishedAt)
                       THEN Some(NewDate(validatedFields.publishedAt[1]))
                       ELSE null,
     isFeatured    |-> IF validatedFields.isFeatured # undefined
                          /\ validatedFields.isFeatured[1]
                       THEN TRUE ELSE FALSE]

-----------------------------------------------------------------------------
(* The blog server actions.  Each takes hasPermission's answer `allowed`,  *)
(* its arguments and the store db = [blogPosts, blogSeq, now], and yields  *)
(* the envelope, the store it leaves and the paths it revalidated.         *)

Outcome(res, db, paths) == [result |-> res, db |-> db, revalidated |-> paths]

DuplicateMessage == "A blog with this title or slug already exists"
NotFoundMessage == "Blog post not found"

\* mutant: the detail path is not interpolated
EditPath_static(id) == "/admin/blogs/[id]/edit"

\* `/admin/blogs/${id}/edit`
EditPath(id) == "/admin/blogs/" \o ToString(id) \o "/edit"

\* mutant: the form is inserted as submitted and parsed only afterwards
createBlog_lateParse(allowed, values, db) ==
    LET permissionError == validatePermission(allowed)
        parsed          == blogFormSchema_parse(values)
        existingBlog    == selectByTitleOrSlug(db.blogPosts,
                               values.title, values.slug)
        dbValues        == dbValuesOf(values)
        inserted        == dbInsert(db, dbValues)
    IN  IF permissionError # null THEN Outcome(permissionError[1], db, <<>>)
        ELSE IF existingBlog # {} THEN Outcome(Failure(DuplicateMessage), db, <<>>)
        ELSE IF inserted.threw
             THEN Outcome(handleDbError(inserted.error[1]), db, <<>>)
        ELSE IF parsed.threw
             THEN Outcome(BlogZodError(parsed.issues), inserted.db, <<>>)
        ELSE Outcome(ActionResult(TRUE,
                                  Some(Spread(dbValues, [id |-> inserted.id])),
                                  undefined,
                                  Some("Blog post created successfully")),
                     inserted.db,
                     <<"/admin/blogs", "/blogs">>)

createBlog(allowed, values, db) ==
    LET permissionError == validatePermission(allowed)
        parsed          == blogFormSchema_parse(values)
        validatedFields == parsed.data
        existingBlog    == selectByTitleOrSlug(db.blogPosts,
                               validatedFields.title, validatedFields.slug)
        dbValues        == dbValuesOf(validatedFields)
        inserted        == dbInsert(db, dbValues)
    IN  IF permissionError # null THEN Outcome(permissionError[1], db, <<>>)
        ELSE IF parsed.threw THEN Outcome(BlogZodError(parsed.issues), db, <<>>)
        ELSE IF existingBlog # {} THEN Outcome(Failure(DuplicateMessage), db, <<>>)
        ELSE IF inserted.threw
             THEN Outcome(handleDbError(inserted.error[1]), db, <<>>)
        ELSE Outcome(ActionResult(TRUE,
                                  Some(Spread(dbValues, [id |-> inserted.id])),
                                  undefined,
                                  Some("Blog post created successfully")),
                     inserted.db,
                     <<"/admin/blogs", "/blogs">>)

\* mutant: the payload is validated before the permission is checked
updateBlog_parseFirst(allowed, id, values, db) ==
    LET permissionError == validatePermission(allowed)
        parsed          == blogFormSchema_parse(values)
        validatedFields == parsed.data
        existingBlog    == selectById(db.blogPosts, id)
        duplicateBlog   == selectDuplicateOf(db.blogPosts, id,
                               validatedFields.title, validatedFields.slug)
        dbValues        == dbValuesOf(validatedFields)
        updated         == dbUpdate(db, id, dbValues)
    IN  IF parsed.threw THEN Outcome(BlogZodError(parsed.issues), db, <<>>)
        ELSE IF permissionError # null THEN Outcome(permissionError[1], db, <<>>)
        ELSE IF existingBlog = {} THEN Outcome(Failure(NotFoundMessage), db, <<>>)
        ELSE IF duplicateBlog # {} THEN Outcome(Failure(DuplicateMessage), db, <<>>)
        ELSE IF updated.threw
             THEN Outcome(handleDbError(updated.error[1]), db, <<>>)
        ELSE Outcome(ActionResult(TRUE,
                                  Some(Spread(dbValues, [id |-> id])),
                                  undefined,
                                  Some("Blog post updated successfully")),
                     updated.db,
                     <<"/admin/blogs", EditPath(id), "/blogs">>)

updateBlog(allowed, id, values, db) ==
    LET permissionError == validatePermission(allowed)
        parsed          == blogFormSchema_parse(values)
        validatedFields == parsed.data
        existingBlog    == selectById(db.blogPosts, id)
        duplicateBlog   == selectDuplicateOf(db.blogPosts, id,
                               validatedFields.title, validatedFields.slug)
        dbValues        == dbValuesOf(validatedFields)
        updated         == dbUpdate(db, id, dbValues)
    IN  IF permissionError # null THEN Outcome(permissionError[1], db, <<>>)
        ELSE IF parsed.threw THEN Outcome(BlogZodError(parsed.issues), db, <<>>)
        ELSE IF existingBlog = {} THEN Outcome(Failure(NotFoundMessage), db, <<>>)
        ELSE IF duplicateBlog # {} THEN Outcome(Failure(DuplicateMessage), db, <<>>)
        ELSE IF updated.threw
             THEN Outcome(handleDbError(updated.error[1]), db, <<>>)
        ELSE Outcome(ActionResult(TRUE,
                                  Some(Spread(dbValues, [id |-> id])),
                                  undefined,
                                  Some("Blog post updated successfully")),
                     updated.db,
                     <<"/admin/blogs", EditPath(id), "/blogs">>)

\* `Blog post "${blog.title}" deleted successfully`
DeletedMessage(title) == "Blog post \"" \o title \o "\" deleted successfully"

deleteBlog(allowed, id, db) ==
    LET permissionError == validatePermission(allowed)
        blogData        == selectById(db.blogPosts, id)
        blog            == CHOOSE b \in blogData : TRUE
    IN  IF permissionError # null THEN Outcome(permissionError[1], db, <<>>)
        ELSE IF blogData = {} THEN Outcome(Failure(NotFoundMessage), db, <<>>)
        ELSE Outcome(ActionResult(TRUE, undefined, undefined,
                                  Some(DeletedMessage(blog.title))),
                     dbDelete(db, id),
                     <<"/admin/blogs", "/blogs">>)

getBlog(allowed, id, db) ==
    LET permissionError == validatePermission(allowed)
        blog            == selectById(db.blogPosts, id)
    IN  IF permissionError # null THEN Outcome(permissionError[1], db, <<>>)
        ELSE IF blog = {} THEN Outcome(Failure(NotFoundMessage), db, <<>>)
        ELSE Outcome(ActionResult(TRUE, Some(CHOOSE b \in blog : TRUE),
                                  undefined, undefined),
                     db, <<>>)

\* String.prototype.toLowerCase, on the letters the model's texts use
LowerChar(c) ==
    CASE c = "H" -> "h" [] c = "W" -> "w" [] c = "N" -> "n"
      [] c = "A" -> "a" [] c = "B" -> "b" [] c = "C" -> "c" [] c = "G" -> "g"
      [] OTHER -> c

RECURSIVE toLowerCase(_)
toLowerCase(s) ==
    IF s = "" THEN ""
    ELSE LowerChar(SubSeq(s, 1, 1)) \o toLowerCase(SubSeq(s, 2, Len(s)))

\* ilike(column, `%${search}%`)
ilike(column, search) == Includes(toLowerCase(column), toLowerCase(search))

\* searchCondition of getPaginatedBlogs: undefined when search is falsy
searchCondition(search, p) ==
    Truthy(search) =>
        \/ ilike(p.title, search[1])
        \/ ilike(p.author, search[1])
        \/ ilike(p.content, search[1])

\* .orderBy(desc(blogPosts.createdAt))
RECURSIVE orderByCreatedAtDesc(_)
orderByCreatedAtDesc(rows) ==
    IF rows = {} THEN <<>>
    ELSE LET newest == CHOOSE r \in rows :
                           \A q \in rows : q.createdAt.time <= r.createdAt.time
         IN  <<newest>> \o orderByCreatedAtDesc(rows \ {newest})

\* mutant: the page is not limited
limitOffset_noLimit(rows, pageSize, skip) == SubSeq(rows, skip + 1, Len(rows))

\* .limit(pageSize).offset(skip)
limitOffset(rows, pageSize, skip) ==
    SubSeq(rows, skip + 1,
           IF skip + pageSize < Len(rows) THEN skip + pageSize ELSE Len(rows))

\* Math.ceil(a / b) for a >= 0, b > 0
MathCeilDiv(a, b) == IF a % b = 0 THEN a \div b ELSE (a \div b) + 1

getPaginatedBlogs(allowed, page, pageSize, search, db) ==
    LET permissionError  == validatePermission(allowed)
        skip             == (page - 1) * pageSize
        matching         == {p \in db.blogPosts : searchCondition(search, p)}
        blogsData        == limitOffset(orderByCreatedAtDesc(matching),
                                        pageSize, skip)
        totalCountResult == Cardinality(matching)
        totalPages       == MathCeilDiv(totalCountResult, pageSize)
    IN  IF permissionError # null THEN Outcome(permissionError[1], db, <<>>)
        ELSE IF skip < 0
             THEN Outcome(handleDbError(DbError("OFFSET must not be negative")),
                          db, <<>>)
        ELSE Outcome(ActionResult(TRUE,
                         Some([blogs |-> blogsData,
                               pagination |->
                                   [currentPage |-> page,
                                    totalPages  |-> totalPages,
                                    totalCount  |-> totalCountResult,
                                    pageSize    |-> pageSize]]),
                         undefined, undefined),
                     db, <<>>)

-----------------------------------------------------------------------------
(* Presigned upload issuer *)

MAX_FILE_SIZE == 5 * 1024 * 1024

S3_BUCKET_NAME == "diuacm"
NEXT_PUBLIC_S3_DOMAIN == "https://cdn.diuacm.com"

\* index of the first "/" of s at or after position i, Len(s) + 1 if none
RECURSIVE SlashFrom(_, _)
SlashFrom(s, i) ==
    IF i > Len(s) THEN Len(s) + 1
    ELSE IF SubSeq(s, i, i) = "/" THEN i
    ELSE SlashFrom(s, i + 1)

\* fileType.split("/")[1]
fileExtensionOf(fileType) ==
    LET first  == SlashFrom(fileType, 1)
        second == SlashFrom(fileType, first + 1)
    IN  IF first > Len(fileType) THEN "undefined"
        ELSE SubSeq(fileType, first + 1, second - 1)

\* getSignedUrl(s3, new PutObjectCommand({Bucket, Key, ...}), {expiresIn: 300})
getSignedUrl(bucket, key, expiresIn) ==
    "https://" \o bucket \o ".s3.amazonaws.com/" \o key
        \o "?X-Amz-Expires=" \o ToString(expiresIn)

\* mutant: the limit itself is rejected
exceedsLimit_inclusive(fileSize) == fileSize >= MAX_FILE_SIZE

\* `fileSize > MAX_FILE_SIZE`
exceedsLimit(fileSize) == fileSize > MAX_FILE_SIZE

\* yields the envelope and the storage keys it generated
generatePresignedUrl(allowed, fileType, fileSize, uniqueId) ==
    LET fileExtension == fileExtensionOf(fileType)
        key           == "blog-images/" \o uniqueId \o "." \o fileExtension
        presignedUrl  == getSignedUrl(S3_BUCKET_NAME, key, 300)
        fileUrl       == NEXT_PUBLIC_S3_DOMAIN \o "/" \o key
    IN  IF ~allowed
        THEN [result |-> Failure("Unauthorized"), keys |-> <<>>]
        ELSE IF ~StartsWith(fileType, "image/")
        THEN [result |-> Failure("Only image files are allowed"), keys |-> <<>>]
        ELSE IF exceedsLimit(fileSize)
        THEN [result |-> Failure("File size exceeds the 5MB limit"),
              keys |-> <<>>]
        ELSE [result |-> ActionResult(TRUE,
                             Some([presignedUrl |-> presignedUrl,
                                   fileUrl |-> fileUrl]),
                             undefined, undefined),
              keys |-> <<key>>]

-----------------------------------------------------------------------------
(* changePassword *)

\* ./schemas/change-password (changePasswordSchema)
changePasswordSchema_issues(values) ==
    Issue(values.currentPassword = "", "Current password is required")
    \o Issue(Len(values.newPassword) < 8,
             "Password must be at least 8 characters")
    \o Issue(values.confirmPassword # values.newPassword,
             "Passwords don't match")

changePasswordSchema_parse(values) ==
    LET issues == changePasswordSchema_issues(values)
    IN  [threw |-> issues # <<>>, issues |-> issues, data |-> values]

\* bcrypt.hash(password, 12) with the salt it drew
bcryptHash(password, rounds, salt) ==
    "$2a$" \o ToString(rounds) \o "$" \o salt \o "." \o password

\* mutant: the update of users has lost its where clause
usersUpdate_all(rows, email, set) == {Spread(u, set) : u \in rows}

\* db.update(users).set({password, updatedAt}).where(eq(users.email, email))
usersUpdate(rows, email, set) ==
    {IF u.email = email THEN Spread(u, set) ELSE u : u \in rows}

\* yields the envelope, the users table and the clock it leaves
changePassword(session, values, salt, rows, t) ==
    LET parsed         == changePasswordSchema_parse(values)
        validatedData  == parsed.data
        hashedPassword == bcryptHash(validatedData.newPassword, 12, salt)
        Kept(res)      == [result |-> res, users |-> rows, now |-> t]
    IN  IF ~Truthy(session)
        THEN Kept(Failure("Not authenticated"))
        ELSE IF parsed.threw
        THEN Kept(Failure(IF parsed.issues # <<>> /\ parsed.issues[1] # ""
                          THEN parsed.issues[1] ELSE "Invalid input"))
        ELSE [result |-> ActionResult(TRUE, undefined, undefined,
                                      Some("Password changed successfully")),
              users |-> usersUpdate(rows, session[1],
                                    [password |-> hashedPassword,
                                     updatedAt |-> ClockDate(t + 1)]),
              now |-> t + 1]

-----------------------------------------------------------------------------
(* The requests the model sends *)

\* the principals a request can come from: no session, an administrator who
\* holds manage_blog_posts, a member who does not.  hasPermission answers
\* the blog actions FALSE for the first and TRUE for the second.
Anonymous == [email |-> undefined, allowed |-> FALSE]
Administrator == [email |-> Some("admin@diu.edu.bd"), allowed |-> TRUE]
Member == [email |-> Some("member@s.diu.edu.bd"), allowed |-> FALSE]

Principals == { Anonymous, Administrator }
Sessions == { Anonymous, Administrator, Member }

\* the fillings of a blog form's remaining fields
FormRestA ==
    [author |-> "Alice", content |-> "first body", status |-> "draft",
     featuredImage |-> undefined, publishedAt |-> Some(""),
     isFeatured |-> undefined]

FormRestB ==
    [author |-> "Bob", content |-> "news of the week", status |-> "published",
     featuredImage |-> Some("https://cdn.diuacm.com/blog-images/a.png"),
     publishedAt |-> Some("2025-01-01"), isFeatured |-> Some(TRUE)]

\* forms the schema accepts: their titles and slugs collide pairwise in
\* every way (title only, slug only, both, neither)
ValidBlogForms ==
    { Spread([title |-> "Hello", slug |-> "hello"], FormRestA),
      Spread([title |-> "World", slug |-> "world"], FormRestB),
      Spread([title |-> "Hello", slug |-> "world"], FormRestA),
      Spread([title |-> "Hello", slug |-> "hello"], FormRestB),
      Spread([title |-> "News", slug |-> "news"], FormRestA) }

\* forms the schema rejects
InvalidBlogForms ==
    { Spread([title |-> "", slug |-> "hello"], FormRestA),
      [title |-> "World", slug |-> "", author |-> "Bob", content |-> "",
       status |-> "archived", featuredImage |-> Some(""),
       publishedAt |-> Some("2025-06-30"), isFeatured |-> Some(FALSE)] }

BlogForms == ValidBlogForms \cup InvalidBlogForms

Searches == { undefined, Some("BOB") }

FileTypes == { "image/png", "image/jpeg", "image/svg+xml", "image/",
               "text/plain", "application/pdf", "video/image/png", "imag" }

FileSizes == { 0, 1024, MAX_FILE_SIZE - 1, MAX_FILE_SIZE, MAX_FILE_SIZE + 1,
               2 * MAX_FILE_SIZE }

Uuids == { "0b1c", "9f3e" }

PasswordForms ==
    { [currentPassword |-> "old-secret", newPassword |-> "new-secret-1",
       confirmPassword |-> "new-secret-1"],
      [currentPassword |-> "", newPassword |-> "short",
       confirmPassword |-> "short"],
      [currentPassword |-> "wrong", newPassword |-> "new-secret-2",
       confirmPassword |-> "new-secret-1"] }

\* the salt bcrypt draws: no decision of the code reads it
Salts == { "N9qo8uLO" }

-----------------------------------------------------------------------------
(* State machine *)

Store == [blogPosts |-> blogPosts, blogSeq |-> blogSeq, now |-> now]

Snapshot == [blogPosts |-> blogPosts, users |-> users]

Init ==
    /\ blogPosts = {}
    /\ blogSeq = 1
    /\ users = { [email |-> "admin@diu.edu.bd",
                  password |-> bcryptHash("old-secret", 12, "N9qo8uLO"),
                  updatedAt |-> ClockDate(0)],
                 [email |-> "member@s.diu.edu.bd",
                  password |-> bcryptHash("old-secret", 12, "Xk2pQ7zR"),
                  updatedAt |-> ClockDate(0)] }
    /\ now = 0
    /\ op = "none"
    /\ args = [id |-> 0]
    /\ caller = Anonymous
    /\ result = ActionResult(TRUE, undefined, undefined, undefined)
    /\ revalidated = <<>>
    /\ s3Keys = <<>>
    /\ before = Snapshot
    /\ thrown = undefined
    /\ calls = EmptyBag
    /\ dialog = "none"
    /\ open = FALSE
    /\ searchQuery = ""
    /\ debouncedSearch = ""
    /\ isSearching = FALSE
    /\ isAdding = null
    /\ searchResults = <<>>
    /\ eventWeights = {}
    /\ searches = <<>>
    /\ adds = <<>>
    /\ ev = [kind |-> "none"]
    /\ pristine = FALSE

\* a blog action returned `out` to principal `who`
BlogReturn(name, who, a, out) ==
    /\ out.db.now <= MaxClock
    /\ blogPosts' = out.db.blogPosts
    /\ blogSeq' = out.db.blogSeq
    /\ now' = out.db.now
    /\ op' = name
    /\ args' = a
    /\ caller' = who
    /\ result' = out.result
    /\ revalidated' = out.revalidated
    /\ s3Keys' = <<>>
    /\ before' = Snapshot
    /\ thrown' = undefined
    /\ UNCHANGED users
    /\ UNCHANGED calls
    /\ UNCHANGED dialogVars

CreateBlog ==
    \E who \in Principals, values \in BlogForms :
        BlogReturn("createBlog", who, [values |-> values],
                   createBlog(who.allowed, values, Store))

UpdateBlog ==
    \E who \in Principals, id \in 1..MaxId, values \in BlogForms :
        BlogReturn("updateBlog", who, [id |-> id, values |-> values],
                   updateBlog(who.allowed, id, values, Store))

DeleteBlog ==
    \E who \in Principals, id \in 1..MaxId :
        BlogReturn("deleteBlog", who, [id |-> id],
                   deleteBlog(who.allowed, id, Store))

GetBlog ==
    \E who \in Principals, id \in 1..MaxId :
        BlogReturn("getBlog", who, [id |-> id],
                   getBlog(who.allowed, id, Store))

GetPaginatedBlogs ==
    \E who \in Principals, page \in 0..MaxPage, pageSize \in 1..MaxPageSize,
       search \in Searches :
        BlogReturn("getPaginatedBlogs", who,
                   [page |-> page, pageSize |-> pageSize, search |-> search],
                   getPaginatedBlogs(who.allowed, page, pageSize, search, Store))

GeneratePresignedUrl ==
    \E who \in Principals, fileType \in FileTypes, fileSize \in FileSizes,
       uniqueId \in Uuids :
        LET out == generatePresignedUrl(who.allowed, fileType, fileSize,
                                        uniqueId)
        IN  /\ op' = "generatePresignedUrl"
            /\ args' = [fileType |-> fileType, fileSize |-> fileSize]
            /\ caller' = who
            /\ result' = out.result
            /\ revalidated' = <<>>
            /\ s3Keys' = out.keys
            /\ before' = Snapshot
            /\ thrown' = undefined
            /\ UNCHANGED <<blogPosts, blogSeq, users, now>>
            /\ UNCHANGED calls
            /\ UNCHANGED dialogVars

ChangePassword ==
    \E who \in Sessions, values \in PasswordForms, salt \in Salts :
        LET out == changePassword(who.email, values, salt, users, now)
        IN  /\ out.now <= MaxClock
            /\ users' = out.users
            /\ now' = out.now
            /\ op' = "changePassword"
            /\ args' = [values |-> values]
            /\ caller' = who
            /\ result' = out.result
            /\ revalidated' = <<>>
            /\ s3Keys' = <<>>
            /\ before' = Snapshot
            /\ thrown' = undefined
            /\ UNCHANGED <<blogPosts, blogSeq>>
            /\ UNCHANGED calls
            /\ UNCHANGED dialogVars

Next ==
    \/ CreateBlog
    \/ UpdateBlog
    \/ DeleteBlog
    \/ GetBlog

\* the mutating blog actions and the lookup by id
Spec == Init /\ [][Next]_vars

\* the listing, over the stores that creations and deletions build
SpecList == Init /\ [][CreateBlog \/ DeleteBlog \/ GetPaginatedBlogs]_vars

\* the actions that validate a form before they write
SpecForms == Init /\ [][CreateBlog \/ UpdateBlog \/ ChangePassword]_vars

\* the upload issuer never touches the entity store: it is checked alone
SpecUpload == Init /\ [][GeneratePresignedUrl]_vars

\* the two mutating actions that take a form
SpecMutate == Init /\ [][CreateBlog \/ UpdateBlog]_vars

-----------------------------------------------------------------------------
(* Failures of the calls the actions await *)

\* what an awaited call can throw: an Error without the words handleDbError
\* looks for (the store's unique violation is one), an Error that carries
\* them, and a thrown value that is no Error at all
ThrownErrors ==
    { UniqueViolation,
      DbError("Duplicate entry 'hello' for key 'blog_posts.slug'"),
      [name |-> "string", message |-> ""] }

\* the calls each action awaits
Awaited(name) ==
    CASE name = "createBlog" -> {"hasPermission", "select", "insert"}
      [] name = "updateBlog" ->
             {"hasPermission", "select", "selectDuplicate", "update"}
      [] name = "deleteBlog" -> {"hasPermission", "select", "delete"}
      [] name = "getBlog" -> {"hasPermission", "select"}
      [] name = "getPaginatedBlogs" -> {"hasPermission", "select"}
      [] name = "generatePresignedUrl" -> {"hasPermission", "getSignedUrl"}
      [] name = "changePassword" -> {"auth", "hash", "update"}

\* mutant: the permission or session lookup is made before the try block
TryScope_afterLookup(name) == Awaited(name) \ {"hasPermission", "auth"}

\* the awaited calls that the action's try block encloses: all of them
TryScope(name) == Awaited(name)

\* the catch block of each action, for an error that is no ZodError
Caught(name, error) ==
    IF name = "changePassword"
    THEN Failure("Failed to change password. Please try again.")
    ELSE handleDbError(error)

\* whether the call of action `name` by `who` with arguments `a` gets as far
\* as the awaited call `step`: the early returns before it were not taken
Reaches(name, who, a, step, db) ==
    CASE name = "createBlog" ->
           LET parsed == blogFormSchema_parse(a.values)
               passed == who.allowed /\ ~parsed.threw
           IN  \/ step = "hasPermission"
               \/ step = "select" /\ passed
               \/ /\ step = "insert"
                  /\ passed
                  /\ selectByTitleOrSlug(db.blogPosts, parsed.data.title,
                                         parsed.data.slug) = {}
      [] name = "updateBlog" ->
           LET parsed == blogFormSchema_parse(a.values)
               passed == who.allowed /\ ~parsed.threw
               found  == passed /\ selectById(db.blogPosts, a.id) # {}
           IN  \/ step = "hasPermission"
               \/ step = "select" /\ passed
               \/ step = "selectDuplicate" /\ found
               \/ /\ step = "update"
                  /\ found
                  /\ selectDuplicateOf(db.blogPosts, a.id, parsed.data.title,
                                       parsed.data.slug) = {}
      [] name = "deleteBlog" ->
           \/ step = "hasPermission"
           \/ step = "select" /\ who.allowed
           \/ /\ step = "delete"
              /\ who.allowed
              /\ selectById(db.blogPosts, a.id) # {}
      [] name \in {"getBlog", "getPaginatedBlogs"} ->
           \/ step = "hasPermission"
           \/ step = "select" /\ who.allowed
      [] name = "generatePresignedUrl" ->
           \/ step = "hasPermission"
           \/ /\ step = "getSignedUrl"
              /\ who.allowed
              /\ StartsWith(a.fileType, "image/")
              /\ ~exceedsLimit(a.fileSize)
      [] name = "changePassword" ->
           \/ step = "auth"
           \/ /\ step \in {"hash", "update"}
              /\ Truthy(who.email)
              /\ ~changePasswordSchema_parse(a.values).threw

\* the failures the model injects: which awaited call throws, and what
Faults ==
    [at : {"hasPermission", "auth", "select", "selectDuplicate", "insert",
           "update", "delete", "hash", "getSignedUrl"},
     error : ThrownErrors]

\* the requests the failures are injected into
FaultForms ==
    { Spread([title |-> "Hello", slug |-> "hello"], FormRestA),
      Spread([title |-> "", slug |-> "hello"], FormRestA) }

\* a call of action `name` in which the awaited call f.at threw f.error: a
\* call that throws writes nothing; inside the try block the catch block
\* answers, outside it the promise of the action rejects
FaultReturn(name, who, a, f) ==
    /\ f.at \in Awaited(name)
    /\ Reaches(name, who, a, f.at, Store)
    /\ op' = name
    /\ args' = Spread(a, [fault |-> f])
    /\ caller' = who
    /\ IF f.at \in TryScope(name)
       THEN result' = Caught(name, f.error) /\ thrown' = undefined
       ELSE result' = undefined /\ thrown' = Some(f.error)
    /\ revalidated' = <<>>
    /\ s3Keys' = <<>>
    /\ before' = Snapshot
    /\ UNCHANGED <<blogPosts, blogSeq, users, now>>
    /\ UNCHANGED calls
    /\ UNCHANGED dialogVars

CreateBlogFault ==
    \E who \in Principals, values \in FaultForms, f \in Faults :
        FaultReturn("createBlog", who, [values |-> values], f)

UpdateBlogFault ==
    \E who \in Principals, id \in 1..MaxId, values \in FaultForms,
       f \in Faults :
        FaultReturn("updateBlog", who, [id |-> id, values |-> values], f)

DeleteBlogFault ==
    \E who \in Principals, id \in 1..MaxId, f \in Faults :
        FaultReturn("deleteBlog", who, [id |-> id], f)

GetBlogFault ==
    \E who \in Principals, id \in 1..MaxId, f \in Faults :
        FaultReturn("getBlog", who, [id |-> id], f)

GetPaginatedBlogsFault ==
    \E who \in Principals, f \in Faults :
        FaultReturn("getPaginatedBlogs", who,
                    [page |-> 1, pageSize |-> 1, search |-> undefined], f)

GeneratePresignedUrlFault ==
    \E who \in Principals, fileSize \in {1024, MAX_FILE_SIZE + 1},
       f \in Faults :
        FaultReturn("generatePresignedUrl", who,
                    [fileType |-> "image/png", fileSize |-> fileSize], f)

ChangePasswordFault ==
    \E who \in Sessions, values \in PasswordForms, f \in Faults :
        FaultReturn("changePassword", who, [values |-> values], f)

\* the seven actions with a failing awaited call, over the stores that
\* creations build
SpecFaults ==
    Init /\ [][CreateBlog \/ CreateBlogFault \/ UpdateBlogFault
               \/ DeleteBlogFault \/ GetBlogFault \/ GetPaginatedBlogsFault
               \/ GeneratePresignedUrlFault \/ ChangePasswordFault]_vars

-----------------------------------------------------------------------------
(* The search dialogs: UserSearchDialog and AttachEventDialog *)

\* String.prototype.trim
RECURSIVE trimStart(_)
trimStart(s) ==
    IF Len(s) > 0 /\ SubSeq(s, 1, 1) = " "
    THEN trimStart(SubSeq(s, 2, Len(s)))
    ELSE s

RECURSIVE trimEnd(_)
trimEnd(s) ==
    IF Len(s) > 0 /\ SubSeq(s, Len(s), Len(s)) = " "
    THEN trimEnd(SubSeq(s, 1, Len(s) - 1))
    ELSE s

trim(s) == trimEnd(trimStart(s))

IsDigit(c) == \E d \in 0..9 : ToString(d) = c

DigitValue(c) == CHOOSE d \in 0..9 : ToString(d) = c

\* how many digits the string holds from position i on
RECURSIVE DigitsFrom(_, _)
DigitsFrom(s, i) ==
    IF i <= Len(s) /\ IsDigit(SubSeq(s, i, i))
    THEN 1 + DigitsFrom(s, i + 1)
    ELSE 0

\* the number a string of digits writes
RECURSIVE NatOf(_)
NatOf(s) ==
    IF s = "" THEN 0
    ELSE 10 * NatOf(SubSeq(s, 1, Len(s) - 1))
         + DigitValue(SubSeq(s, Len(s), Len(s)))

RECURSIVE PowerOfTen(_)
PowerOfTen(n) == IF n = 0 THEN 1 ELSE 10 * PowerOfTen(n - 1)

NaN == [nan |-> TRUE, neg |-> FALSE, num |-> 0, den |-> 1]

\* parseFloat of a decimal literal without exponent: leading blanks, a sign,
\* digits, a point, digits; what follows is ignored; NaN when no digit is
\* found.  The value is (-1)^neg * num / den.
parseFloat(s) ==
    LET t      == trimStart(s)
        signed == Len(t) > 0 /\ SubSeq(t, 1, 1) \in {"-", "+"}
        i      == IF signed THEN 2 ELSE 1
        n      == DigitsFrom(t, i)
        dot    == i + n <= Len(t) /\ SubSeq(t, i + n, i + n) = "."
        m      == IF dot THEN DigitsFrom(t, i + n + 1) ELSE 0
    IN  IF n + m = 0 THEN NaN
        ELSE [nan |-> FALSE,
              neg |-> signed /\ SubSeq(t, 1, 1) = "-",
              num |-> NatOf(SubSeq(t, i, i + n - 1)) * PowerOfTen(m)
                      + NatOf(SubSeq(t, i + n + 1, i + n + m)),
              den |-> PowerOfTen(m)]

isNaN(v) == v.nan

\* weightValue < 0.0
BelowZero(v) == v.neg /\ v.num > 0

\* weightValue > 1.0
AboveOne(v) == ~v.neg /\ v.num > v.den

UserSearchDialog == "UserSearchDialog"
AttachEventDialog == "AttachEventDialog"

Dialogs == {UserSearchDialog, AttachEventDialog}

\* the users searchUsers can return, and the events getAvailableEvents can
Users ==
    << [id |-> "u1", name |-> "Nabil"], [id |-> "u2", name |-> "Bably"] >>

Events ==
    << [id |-> 1, title |-> "Contest", description |-> null,
        type |-> "contest"],
       [id |-> 2, title |-> "Night", description |-> Some("Graphs"),
        type |-> "class"],
       [id |-> 3, title |-> "Bootcamp", description |-> Some("Counting"),
        type |-> "class"] >>

\* the items a dialog lists
Items(d) == IF d = UserSearchDialog THEN Users ELSE Events

\* the filter of AttachEventDialog's handleSearch
matchesQuery(event, query) ==
    \/ Includes(toLowerCase(event.title), toLowerCase(query))
    \/ /\ event.description # null
       /\ Includes(toLowerCase(event.description[1]), toLowerCase(query))
    \/ Includes(toLowerCase(event.type), toLowerCase(query))

\* events.filter((event) => ...) of AttachEventDialog's handleSearch
filterEvents(events, query) ==
    LET Keep(event) == matchesQuery(event, query)
    IN  SelectSeq(events, Keep)

\* prev.filter((item) => item.id !== id)
filterOut(list, id) ==
    LET Keep(item) == item.id # id
    IN  SelectSeq(list, Keep)

\* what the user types into the search input
Queries == {"", "c ", "co"}

\* the queries typed while items are added: none, and one to search for
AddQueries == {"", "co"}

\* what the user types into a weight input
Weights == {"", "0.5", "1.5", "-0.1"}

\* the weights entered before a successful attach
AddWeights == {"0.5"}

\* the settled promise of a server call: rejected, or fulfilled with an
\* envelope { success, data?, error? }
Response(rejected, success, data, error) ==
    [rejected |-> rejected, success |-> success, data |-> data,
     error |-> error]

\* what searchUsers / getAvailableEvents can answer
SearchResponses(d) ==
    { Response(FALSE, TRUE, Some(SubSeq(Items(d), 1, k)), undefined) :
          k \in 0..Len(Items(d)) }
    \cup { Response(FALSE, TRUE, undefined, undefined),
           Response(FALSE, FALSE, undefined, Some("Too many requests")),
           Response(TRUE, FALSE, undefined, undefined) }

\* the answers of the search action while items are added: the first item,
\* every item, or a failure
AddSearchResponses(d) ==
    { Response(FALSE, TRUE, Some(SubSeq(Items(d), 1, k)), undefined) :
          k \in {1, Len(Items(d))} }
    \cup { Response(FALSE, FALSE, undefined, Some("Too many requests")) }

\* the ways a search request can end: fulfilled with items, fulfilled
\* with a failure, or rejected
EndingSearchResponses(d) ==
    { Response(FALSE, TRUE, Some(Items(d)), undefined),
      Response(FALSE, FALSE, undefined, Some("Too many requests")),
      Response(TRUE, FALSE, undefined, undefined) }

\* what addUser / attachEventToRanklist can answer
AddResponses ==
    { Response(FALSE, TRUE, Some("row-7"), undefined),
      Response(FALSE, FALSE, undefined, Some("Already added")),
      Response(TRUE, FALSE, undefined, undefined) }

\* the step a dialog has just taken: the queries it sent to the search
\* action, the add request it sent, the toast it raised, the calls of the
\* success callback (each with its argument list), the request that
\* settled and its response, and what the dialog showed before the step
Step(kind, issued, sent, toast, callback, request, response, was) ==
    [kind |-> kind, issued |-> issued, sent |-> sent, toast |-> toast,
     callback |-> callback, request |-> request, response |-> response,
     was |-> was]

Shown ==
    [searchQuery |-> searchQuery, searchResults |-> searchResults,
     eventWeights |-> eventWeights]

\* the list and the weights alone
Listed == [searchResults |-> searchResults, eventWeights |-> eventWeights]

Toast(type, message) == Some([type |-> type, message |-> message])

\* response.error || fallback
OrElse(error, fallback) == IF Truthy(error) THEN error[1] ELSE fallback

\* mutant: handleSearch refuses a query by its trimmed length
handleSearch_trimmed(query, results, searching, pending) ==
    IF Len(trim(query)) < 2
    THEN [searchResults |-> <<>>, isSearching |-> searching,
          searches |-> pending, issued |-> <<>>]
    ELSE [searchResults |-> results, isSearching |-> TRUE,
          searches |-> Append(pending, [query |-> query, overtaken |-> FALSE]),
          issued |-> <<query>>]

\* handleSearch(query) up to its await: a refused query empties the list,
\* an accepted one raises the searching flag and sends the request
handleSearch(query, results, searching, pending) ==
    IF trim(query) = "" \/ Len(query) < 2
    THEN [searchResults |-> <<>>, isSearching |-> searching,
          searches |-> pending, issued |-> <<>>]
    ELSE [searchResults |-> results, isSearching |-> TRUE,
          searches |-> Append(pending, [query |-> query, overtaken |-> FALSE]),
          issued |-> <<query>>]

\* no call of handleSearch
noSearch(results, searching, pending) ==
    [searchResults |-> results, isSearching |-> searching,
     searches |-> pending, issued |-> <<>>]

\* the effect on [debouncedSearch, handleSearch]
debounceEffect(d, debounced, results, searching, pending) ==
    IF debounced # "" /\ Len(trim(debounced)) >= 2
    THEN handleSearch(debounced, results, searching, pending)
    ELSE IF d = AttachEventDialog
    THEN noSearch(<<>>, searching, pending)
    ELSE noSearch(results, searching, pending)

\* mutant: the reset on opening forgets the weights
resetEffect_keepWeights(shown) ==
    [searchQuery |-> "", searchResults |-> <<>>,
     eventWeights |-> shown.eventWeights]

\* the effect on [open] / [isOpen], when the dialog has opened
resetEffect(shown) ==
    [searchQuery |-> "", searchResults |-> <<>>, eventWeights |-> {}]

\* eventWeights[eventId]
weightEntry(weights, id) ==
    IF \E e \in weights : e.id = id
    THEN Some((CHOOSE e \in weights : e.id = id).value)
    ELSE undefined

\* { ...prev, [eventId]: weight }
withWeight(weights, id, weight) ==
    {e \in weights : e.id # id} \cup {[id |-> id, value |-> weight]}

\* delete newWeights[eventId]
withoutWeight(weights, id) == {e \in weights : e.id # id}

\* mutant: the upper limit of the weight is not checked
weightRefused_noUpper(weightValue) ==
    isNaN(weightValue) \/ BelowZero(weightValue)

\* the client-side check of handleAttachEvent
weightRefused(weightValue) ==
    isNaN(weightValue) \/ BelowZero(weightValue) \/ AboveOne(weightValue)

\* the most requests (searches and adds together) the model keeps in flight
MaxInFlight == 2

\* how many of them may be add / attach requests
MaxAdds == 1

\* the component is rendered for the first time; its effects find nothing
\* to search and nothing to reset
Mount ==
    \E d \in Dialogs :
        /\ dialog = "none"
        /\ dialog' = d
        /\ ev' = Step("mount", <<>>, <<>>, <<>>, <<>>, <<>>, <<>>, <<>>)
        /\ UNCHANGED <<pristine, open, searchQuery, debouncedSearch,
                       isSearching, isAdding, searchResults, eventWeights,
                       searches, adds>>
        /\ UNCHANGED serverVars

\* the trigger is clicked: setOpen(true), then the reset effect
OpenDialog ==
    /\ dialog # "none"
    /\ ~open
    /\ open' = TRUE
    /\ searchQuery' = resetEffect(Shown).searchQuery
    /\ searchResults' = resetEffect(Shown).searchResults
    /\ eventWeights' = resetEffect(Shown).eventWeights
    /\ ev' = Step("open", <<>>, <<>>, <<>>, <<>>, <<>>, <<>>, Shown)
    /\ pristine' = TRUE
    /\ UNCHANGED <<dialog, debouncedSearch, isSearching, isAdding, searches,
                   adds>>
    /\ UNCHANGED serverVars

\* the Close button, Escape or a click outside: setOpen(false)
CloseDialog ==
    /\ open
    /\ open' = FALSE
    /\ ev' = Step("close", <<>>, <<>>, <<>>, <<>>, <<>>, <<>>, <<>>)
    /\ pristine' = FALSE
    /\ UNCHANGED <<dialog, searchQuery, debouncedSearch, isSearching,
                   isAdding, searchResults, eventWeights, searches, adds>>
    /\ UNCHANGED serverVars

\* onChange of the search input, for the values the user may type
TypeQueryIn(values) ==
    \E value \in values \ {searchQuery} :
        /\ open
        /\ searchQuery' = value
        /\ searchResults' = IF value = "" THEN <<>> ELSE searchResults
        /\ ev' = Step("type", <<>>, <<>>, <<>>, <<>>, <<>>, <<>>, <<>>)
        /\ pristine' = FALSE
        /\ UNCHANGED <<dialog, open, debouncedSearch, isSearching, isAdding,
                       eventWeights, searches, adds>>
        /\ UNCHANGED serverVars

TypeQuery == TypeQueryIn(Queries)

TypeAddQuery == TypeQueryIn(AddQueries)

\* the state a call of handleSearch leaves, when the model can hold the
\* request it sends beside the adds in flight
Searched(h, pendingAdds) ==
    /\ Len(h.searches) + Len(pendingAdds) <= MaxInFlight
    /\ searchResults' = h.searchResults
    /\ isSearching' = h.isSearching
    /\ searches' = h.searches

\* @/hooks/use-debounce: a value that differs from the published one is
\* published once it has stood for the delay
useDebounce_due(value, published) == value # published

\* 500 ms have passed since the last change of the query: useDebounce
\* publishes it and the effect on debouncedSearch runs
DebounceElapsed ==
    LET h == debounceEffect(dialog, searchQuery, searchResults, isSearching,
                            searches)
    IN  /\ dialog # "none"
        /\ useDebounce_due(searchQuery, debouncedSearch)
        /\ debouncedSearch' = searchQuery
        /\ Searched(h, adds)
        /\ ev' = Step("debounce", h.issued, <<>>, <<>>, <<>>, <<>>, <<>>,
                      <<>>)
        /\ UNCHANGED <<pristine, dialog, open, searchQuery, isAdding,
                       eventWeights, adds>>
        /\ UNCHANGED serverVars

\* onKeyDown of the search input, for the Enter key
PressEnter ==
    LET h == handleSearch(searchQuery, searchResults, isSearching, searches)
    IN  /\ open
        /\ Len(trim(searchQuery)) >= 2
        /\ Searched(h, adds)
        /\ ev' = Step("enter", h.issued, <<>>, <<>>, <<>>, <<>>, <<>>, <<>>)
        /\ UNCHANGED <<pristine, dialog, open, searchQuery, debouncedSearch,
                       isAdding, eventWeights, adds>>
        /\ UNCHANGED serverVars

\* without the i-th element; the requests sent before it are marked as
\* overtaken by a later one
Settle(pending, i) ==
    LET marked == [j \in DOMAIN pending |->
                     IF j < i THEN [pending[j] EXCEPT !.overtaken = TRUE]
                     ELSE pending[j]]
    IN  SubSeq(marked, 1, i - 1) \o SubSeq(marked, i + 1, Len(pending))

\* mutant: the events are listed as the server returned them
listed_unfiltered(d, request, response) == response.data[1]

\* the list a fulfilled search leaves: response.data, filtered by the
\* query of the request in AttachEventDialog
listed(d, request, response) ==
    IF d = AttachEventDialog
    THEN filterEvents(response.data[1], request.query)
    ELSE response.data[1]

SearchFailedMessage(d) ==
    IF d = AttachEventDialog THEN "Failed to search events"
    ELSE "Failed to search users"

\* mutant: the response of an overtaken request is dropped
searchSettled_latestOnly(d, request, response, results) ==
    IF request.overtaken THEN [searchResults |-> results, toast |-> <<>>]
    ELSE IF response.rejected
    THEN [searchResults |-> <<>>,
          toast |-> Toast("error",
                          "An unexpected error occurred while searching")]
    ELSE IF response.success /\ response.data # undefined
    THEN [searchResults |-> listed(d, request, response), toast |-> <<>>]
    ELSE [searchResults |-> <<>>,
          toast |-> Toast("error",
                          OrElse(response.error, SearchFailedMessage(d)))]

\* handleSearch from its await on: the list and the toast it leaves
searchSettled(d, request, response, results) ==
    IF response.rejected
    THEN [searchResults |-> <<>>,
          toast |-> Toast("error",
                          "An unexpected error occurred while searching")]
    ELSE IF response.success /\ response.data # undefined
    THEN [searchResults |-> listed(d, request, response), toast |-> <<>>]
    ELSE [searchResults |-> <<>>,
          toast |-> Toast("error",
                          OrElse(response.error, SearchFailedMessage(d)))]

\* mutant: the flag is cleared at the end of the try block, which a
\* rejected request does not reach
searchFinally_tryOnly(response, searching) ==
    IF response.rejected THEN searching ELSE FALSE

\* the finally block of handleSearch: setIsSearching(false), however the
\* request has ended
searchFinally(response, searching) == FALSE

\* a search request in flight settles, in any order
SearchResolveIn(responses) ==
    \E i \in DOMAIN searches, response \in responses :
        LET s == searchSettled(dialog, searches[i], response, searchResults)
        IN  /\ searchResults' = s.searchResults
            /\ isSearching' = searchFinally(response, isSearching)
            /\ searches' = Settle(searches, i)
            /\ ev' = Step("searchResolved", <<>>, <<>>, s.toast, <<>>,
                          Some(searches[i]), Some(response), <<>>)
            /\ UNCHANGED <<pristine, dialog, open, searchQuery, debouncedSearch,
                           isAdding, eventWeights, adds>>
            /\ UNCHANGED serverVars

SearchResolve == SearchResolveIn(SearchResponses(dialog))

AddSearchResolve == SearchResolveIn(AddSearchResponses(dialog))

EndingSearchResolve == SearchResolveIn(EndingSearchResponses(dialog))

\* onChange of the weight input of a listed event, for the values the user
\* may type
EditWeightIn(values) ==
    \E k \in DOMAIN searchResults, weight \in values :
        LET id == searchResults[k].id
        IN  /\ dialog = AttachEventDialog
            /\ open
            /\ ~isSearching
            /\ weightEntry(eventWeights, id) # Some(weight)
            /\ eventWeights' = withWeight(eventWeights, id, weight)
            /\ ev' = Step("weight", <<>>, <<>>, <<>>, <<>>, <<>>, <<>>, <<>>)
            /\ UNCHANGED <<pristine, dialog, open, searchQuery, debouncedSearch,
                           isSearching, isAdding, searchResults, searches,
                           adds>>
            /\ UNCHANGED serverVars

EditWeight == EditWeightIn(Weights)

EditAddWeight == EditWeightIn(AddWeights)

\* the weight handleAttachEvent reads: eventWeights[eventId] || "1.0"
enteredWeight(weights, id) == OrElse(weightEntry(weights, id), "1.0")

\* the request a click on a listed item's button sends, with what the
\* handler of that render has closed over: the length of the list and the
\* query its refresh will search for (handleSearch's default argument
\* debouncedSearch in UserSearchDialog, searchQuery in AttachEventDialog)
AddRequest(d, id) ==
    IF d = AttachEventDialog
    THEN [id |-> id,
          weight |-> Some(parseFloat(enteredWeight(eventWeights, id))),
          seenLength |-> Len(searchResults), seenQuery |-> searchQuery]
    ELSE [id |-> id, weight |-> undefined,
          seenLength |-> Len(searchResults), seenQuery |-> debouncedSearch]

\* onClick of the Add / Attach button of a listed item: handleAddUser and
\* handleAttachEvent up to their await, with at most `limit` add / attach
\* requests in flight
ClickAddWithin(limit) ==
    \E k \in DOMAIN searchResults :
        LET id      == searchResults[k].id
            request == AddRequest(dialog, id)
        IN  /\ open
            /\ ~isSearching
            /\ isAdding # Some(id)
            /\ IF dialog = AttachEventDialog /\ weightRefused(request.weight[1])
               THEN /\ ev' = Step("click", <<>>, <<>>,
                                  Toast("error",
                                        "Weight must be between 0.0 and 1.0"),
                                  <<>>, <<>>, <<>>, Listed)
                    /\ UNCHANGED <<isAdding, adds>>
               ELSE /\ Len(searches) + Len(adds) < MaxInFlight
                    /\ Len(adds) < limit
                    /\ isAdding' = Some(id)
                    /\ adds' = Append(adds, request)
                    /\ ev' = Step("click", <<>>, Some(request), <<>>, <<>>,
                                  <<>>, <<>>, Listed)
            /\ UNCHANGED <<pristine, dialog, open, searchQuery,
                           debouncedSearch, isSearching, searchResults,
                           eventWeights, searches>>
            /\ UNCHANGED serverVars

ClickAdd == ClickAddWithin(MaxAdds)

\* clicks limited only by the requests in flight
ClickAddAny == ClickAddWithin(MaxInFlight)

\* the refresh after a successful add: `if (searchResults.length === 1)
\* handleSearch()` and `if (searchResults.length === 1 &&
\* searchQuery.trim().length >= 2) handleSearch(searchQuery)`, on the values
\* the handler closed over
refresh(d, request, results, searching, pending) ==
    IF /\ request.seenLength = 1
       /\ d = AttachEventDialog => Len(trim(request.seenQuery)) >= 2
    THEN handleSearch(request.seenQuery, results, searching, pending)
    ELSE noSearch(results, searching, pending)

\* mutant: both callbacks are handed the data of the response
callbackArguments_data(d, response) == <<response.data>>

\* the arguments the success callback is called with: onUserAdded gets
\* response.data, onSuccess gets nothing
callbackArguments(d, response) ==
    IF d = AttachEventDialog THEN <<>> ELSE <<response.data>>

SuccessMessage(d) ==
    IF d = AttachEventDialog THEN "Event attached successfully"
    ELSE "User added successfully"

AddFailedMessage(d) ==
    IF d = AttachEventDialog THEN "Failed to attach event"
    ELSE "Failed to add user"

\* an add / attach request in flight settles, in any order: handleAddUser
\* and handleAttachEvent from their await on
AddResolve ==
    \E i \in DOMAIN adds, response \in AddResponses :
        LET request == adds[i]
            rest    == SubSeq(adds, 1, i - 1) \o SubSeq(adds, i + 1, Len(adds))
            ok      == ~response.rejected /\ response.success
            h       == IF ok
                       THEN refresh(dialog, request,
                                    filterOut(searchResults, request.id),
                                    isSearching, searches)
                       ELSE noSearch(searchResults, isSearching, searches)
            toast   == IF ok THEN Toast("success", SuccessMessage(dialog))
                       ELSE IF response.rejected
                       THEN Toast("error", "An unexpected error occurred")
                       ELSE Toast("error", OrElse(response.error,
                                                  AddFailedMessage(dialog)))
        IN  /\ Searched(h, rest)
            /\ eventWeights' = IF ok /\ dialog = AttachEventDialog
                               THEN withoutWeight(eventWeights, request.id)
                               ELSE eventWeights
            /\ isAdding' = null
            /\ adds' = rest
            /\ ev' = Step("addResolved", h.issued, <<>>, toast,
                          IF ok THEN <<callbackArguments(dialog, response)>>
                          ELSE <<>>,
                          Some(request), Some(response), Listed)
            /\ UNCHANGED <<pristine, dialog, open, searchQuery,
                           debouncedSearch>>
            /\ UNCHANGED serverVars

\* the dialogs once opened: searching, adding and attaching, with the
\* server answering in any order
SpecAdd ==
    Init /\ [][Mount \/ OpenDialog \/ TypeAddQuery \/ DebounceElapsed
               \/ AddSearchResolve \/ EditAddWeight \/ ClickAdd
               \/ AddResolve]_vars

\* the attach dialog with every weight the user may type, up to the
\* sending of the attach requests
SpecWeights ==
    Init /\ [][Mount \/ OpenDialog \/ TypeAddQuery \/ DebounceElapsed
               \/ AddSearchResolve \/ EditWeight \/ ClickAdd]_vars

\* the add buttons, clicked while other adds are pending; no weights are
\* entered
SpecButtons ==
    Init /\ [][Mount \/ OpenDialog \/ TypeAddQuery \/ DebounceElapsed
               \/ AddSearchResolve \/ ClickAddAny \/ AddResolve]_vars

\* what the user does to a dialog
UserActs ==
    \/ OpenDialog
    \/ CloseDialog
    \/ TypeAddQuery
    \/ PressEnter
    \/ ClickAdd

\* the dialogs with every request in flight settling in the end, and the
\* debounce timer running out: neither can be held back for ever
SpecLive ==
    /\ Init
    /\ [][Mount \/ OpenDialog \/ CloseDialog \/ TypeAddQuery \/ PressEnter
           \/ ClickAdd \/ DebounceElapsed \/ EndingSearchResolve
           \/ AddResolve]_vars
    /\ WF_vars(DebounceElapsed)
    /\ WF_vars(EndingSearchResolve)
    /\ WF_vars(AddResolve)

\* the dialogs without their add buttons: typing, searching, opening and
\* closing
SpecSearch ==
    Init /\ [][Mount \/ OpenDialog \/ CloseDialog \/ TypeQuery
               \/ DebounceElapsed \/ PressEnter \/ SearchResolve
               \/ EditWeight]_vars

-----------------------------------------------------------------------------
(* Interleaved calls.  A blog action runs without interruption from one    *)
(* await on the store to the next; between two of its queries the queries  *)
(* of other calls can run.  `calls` holds the calls suspended between two  *)
(* queries, each with the values it carries across the await.  When such a *)
(* call returns, `before` is the store as its last query found it.         *)

\* the most calls the model keeps suspended
MaxCalls == 2

\* the forms of concurrent writers: one title under two slugs; two calls
\* with the same form collide on title and slug
RaceForms ==
    { Spread([title |-> "Hello", slug |-> "hello"], FormRestA),
      Spread([title |-> "Hello", slug |-> "world"], FormRestA) }

\* the callers of interleaved calls hold manage_blog_posts
RacePrincipals == { Administrator }

\* the post that interleaved calls update and delete: the first one created
RaceIds == { 1 }

\* the page sizes interleaved listings ask for, always of the first page
RacePageSizes == { 1, 2 }

\* a suspended call: the await it resumes from and what it has read so far
Call(name, who, a, pc, seen) ==
    [name |-> name, who |-> who, args |-> a, pc |-> pc, seen |-> seen]

Suspended == BagToSet(calls)

Without(call) == calls (-) SetToBag({call})

\* a call has run up to an await on the store
Suspend(call) ==
    /\ BagCardinality(calls) < MaxCalls
    /\ calls' = calls (+) SetToBag({call})
    /\ UNCHANGED <<blogPosts, blogSeq, users, now, op, args, caller, result,
                   revalidated, s3Keys, before, thrown>>
    /\ UNCHANGED dialogVars

\* a suspended call has run from one await to the next
Proceed(call, pc) ==
    /\ calls' = Without(call) (+) SetToBag({[call EXCEPT !.pc = pc]})
    /\ UNCHANGED <<blogPosts, blogSeq, users, now, op, args, caller, result,
                   revalidated, s3Keys, before, thrown>>
    /\ UNCHANGED dialogVars

\* a call has returned `out`, leaving the calls `left` suspended
Return(left, name, who, a, out) ==
    /\ out.db.now <= MaxClock
    /\ blogPosts' = out.db.blogPosts
    /\ blogSeq' = out.db.blogSeq
    /\ now' = out.db.now
    /\ op' = name
    /\ args' = a
    /\ caller' = who
    /\ result' = out.result
    /\ revalidated' = out.revalidated
    /\ s3Keys' = <<>>
    /\ before' = Snapshot
    /\ thrown' = undefined
    /\ calls' = left
    /\ UNCHANGED users
    /\ UNCHANGED dialogVars

\* createBlog gets past its pre-check
createBlogPasses(allowed, values, db) ==
    /\ validatePermission(allowed) = null
    /\ ~blogFormSchema_parse(values).threw
    /\ selectByTitleOrSlug(db.blogPosts, values.title, values.slug) = {}

\* createBlog from its insert on
createBlogInsert(values, db) ==
    LET dbValues == dbValuesOf(blogFormSchema_parse(values).data)
        inserted == dbInsert(db, dbValues)
    IN  IF inserted.threw
        THEN Outcome(handleDbError(inserted.error[1]), db, <<>>)
        ELSE Outcome(ActionResult(TRUE,
                                  Some(Spread(dbValues, [id |-> inserted.id])),
                                  undefined,
                                  Some("Blog post created successfully")),
                     inserted.db,
                     <<"/admin/blogs", "/blogs">>)

\* createBlog is called and runs through its pre-check
CreateBlogSelect ==
    \E who \in RacePrincipals, values \in RaceForms :
        IF createBlogPasses(who.allowed, values, Store)
        THEN Suspend(Call("createBlog", who, [values |-> values], "insert",
                          <<>>))
        ELSE Return(calls, "createBlog", who, [values |-> values],
                    createBlog(who.allowed, values, Store))

\* the insert of a suspended createBlog runs, and the call returns
CreateBlogInsert ==
    \E call \in Suspended :
        /\ call.name = "createBlog"
        /\ call.pc = "insert"
        /\ Return(Without(call), call.name, call.who, call.args,
                  createBlogInsert(call.args.values, Store))

\* updateBlog gets past its existence check
updateBlogPasses(allowed, id, values, db) ==
    /\ validatePermission(allowed) = null
    /\ ~blogFormSchema_parse(values).threw
    /\ selectById(db.blogPosts, id) # {}

\* updateBlog from its update on
updateBlogUpdate(id, values, db) ==
    LET dbValues == dbValuesOf(blogFormSchema_parse(values).data)
        updated  == dbUpdate(db, id, dbValues)
    IN  IF updated.threw
        THEN Outcome(handleDbError(updated.error[1]), db, <<>>)
        ELSE Outcome(ActionResult(TRUE,
                                  Some(Spread(dbValues, [id |-> id])),
                                  undefined,
                                  Some("Blog post updated successfully")),
                     updated.db,
                     <<"/admin/blogs", EditPath(id), "/blogs">>)

\* updateBlog is called and runs through its existence check
UpdateBlogSelect ==
    \E who \in RacePrincipals, id \in RaceIds, values \in RaceForms :
        IF updateBlogPasses(who.allowed, id, values, Store)
        THEN Suspend(Call("updateBlog", who, [id |-> id, values |-> values],
                          "selectDuplicate", <<>>))
        ELSE Return(calls, "updateBlog", who, [id |-> id, values |-> values],
                    updateBlog(who.allowed, id, values, Store))

\* the duplicate check of a suspended updateBlog runs
UpdateBlogSelectDuplicate ==
    \E call \in Suspended :
        /\ call.name = "updateBlog"
        /\ call.pc = "selectDuplicate"
        /\ IF selectDuplicateOf(blogPosts, call.args.id,
                                call.args.values.title,
                                call.args.values.slug) # {}
           THEN Return(Without(call), call.name, call.who, call.args,
                       Outcome(Failure(DuplicateMessage), Store, <<>>))
           ELSE Proceed(call, "update")

\* the update of a suspended updateBlog runs, and the call returns
UpdateBlogUpdate ==
    \E call \in Suspended :
        /\ call.name = "updateBlog"
        /\ call.pc = "update"
        /\ Return(Without(call), call.name, call.who, call.args,
                  updateBlogUpdate(call.args.id, call.args.values, Store))

\* deleteBlog is called and runs through its existence check
DeleteBlogSelect ==
    \E who \in RacePrincipals, id \in RaceIds :
        LET blogData == selectById(blogPosts, id)
        IN  IF validatePermission(who.allowed) = null /\ blogData # {}
            THEN Suspend(Call("deleteBlog", who, [id |-> id], "delete",
                              <<(CHOOSE b \in blogData : TRUE).title>>))
            ELSE Return(calls, "deleteBlog", who, [id |-> id],
                        deleteBlog(who.allowed, id, Store))

\* the delete of a suspended deleteBlog runs, and the call returns
DeleteBlogDelete ==
    \E call \in Suspended :
        /\ call.name = "deleteBlog"
        /\ call.pc = "delete"
        /\ Return(Without(call), call.name, call.who, call.args,
                  Outcome(ActionResult(TRUE, undefined, undefined,
                                       Some(DeletedMessage(call.seen[1]))),
                          dbDelete(Store, call.args.id),
                          <<"/admin/blogs", "/blogs">>))

\* the first query of getPaginatedBlogs' Promise.all
selectPage(page, pageSize, search, posts) ==
    limitOffset(orderByCreatedAtDesc({p \in posts : searchCondition(search, p)}),
                pageSize, (page - 1) * pageSize)

\* the second query of getPaginatedBlogs' Promise.all
selectCount(search, posts) ==
    Cardinality({p \in posts : searchCondition(search, p)})

\* the envelope getPaginatedBlogs builds from the two answers
paginated(page, pageSize, blogsData, totalCountResult) ==
    ActionResult(TRUE,
                 Some([blogs |-> blogsData,
                       pagination |->
                           [currentPage |-> page,
                            totalPages  |-> MathCeilDiv(totalCountResult,
                                                        pageSize),
                            totalCount  |-> totalCountResult,
                            pageSize    |-> pageSize]]),
                 undefined, undefined)

\* the answer of one of the two queries: "blogs" or "count"
Answer(query, a, posts) ==
    IF query = "blogs"
    THEN selectPage(a.page, a.pageSize, a.search, posts)
    ELSE selectCount(a.search, posts)

\* getPaginatedBlogs is called and the store runs one of its two queries;
\* the store is free to run them in either order
GetPaginatedBlogsFirst ==
    \E who \in RacePrincipals, pageSize \in RacePageSizes,
       query \in {"blogs", "count"} :
        LET page == 1
            a == [page |-> page, pageSize |-> pageSize, search |-> undefined]
        IN  IF validatePermission(who.allowed) = null
            THEN Suspend(Call("getPaginatedBlogs", who, a, query,
                              <<Answer(query, a, blogPosts)>>))
            ELSE Return(calls, "getPaginatedBlogs", who, a,
                        getPaginatedBlogs(who.allowed, page, pageSize,
                                          undefined, Store))

\* the store runs the other query, and the call returns
GetPaginatedBlogsSecond ==
    \E call \in Suspended :
        /\ call.name = "getPaginatedBlogs"
        /\ LET a == call.args
               blogsData == IF call.pc = "blogs" THEN call.seen[1]
                            ELSE Answer("blogs", a, blogPosts)
               totalCountResult == IF call.pc = "count" THEN call.seen[1]
                                   ELSE Answer("count", a, blogPosts)
           IN  Return(Without(call), call.name, call.who, a,
                      Outcome(paginated(a.page, a.pageSize, blogsData,
                                        totalCountResult),
                              Store, <<>>))

\* concurrent writers of the post store
SpecRace ==
    Init /\ [][CreateBlogSelect \/ CreateBlogInsert \/ UpdateBlogSelect
               \/ UpdateBlogSelectDuplicate \/ UpdateBlogUpdate
               \/ DeleteBlogSelect \/ DeleteBlogDelete]_vars

\* readers of the post list beside concurrent creators and deleters
SpecRaceList ==
    Init /\ [][CreateBlogSelect \/ CreateBlogInsert \/ DeleteBlogSelect
               \/ DeleteBlogDelete \/ GetPaginatedBlogsFirst
               \/ GetPaginatedBlogsSecond]_vars

-----------------------------------------------------------------------------
(* Properties of the actions *)

BlogMutations == {"createBlog", "updateBlog", "deleteBlog"}

IdsOf(posts) == {p.id : p \in posts}

\* the call that has just returned failed and reported an error
Refused == result.success = FALSE /\ result.error # undefined

PostsUntouched == blogPosts = before.blogPosts

\* the elements of a sequence
Range(seq) == {seq[i] : i \in 1..Len(seq)}

\* C1: a createBlog, updateBlog or deleteBlog call whose permission check
\* fails returns success=false with the permission error, and neither the
\* post store nor any cached page is touched, whatever the payload and id.
C1_PermissionDeniedNoEffect ==
    (op \in BlogMutations /\ ~caller.allowed) =>
        /\ Refused
        /\ Includes(result.error[1], "permission")
        /\ PostsUntouched
        /\ revalidated = <<>>

\* an unpermitted updateBlog of an existing post with a form that would pass
C1_Witness ==
    /\ op = "updateBlog"
    /\ ~caller.allowed
    /\ args.id \in IdsOf(before.blogPosts)
    /\ args.values \in ValidBlogForms
    /\ selectDuplicateOf(before.blogPosts, args.id,
                         args.values.title, args.values.slug) = {}
    /\ Refused

\* the submitted form of the last call fails its schema
FormRejected ==
    \/ /\ op \in {"createBlog", "updateBlog"}
       /\ blogFormSchema_parse(args.values).threw
    \/ /\ op = "changePassword"
       /\ changePasswordSchema_parse(args.values).threw

\* C2: createBlog, updateBlog and changePassword answer a payload that fails
\* schema validation with success=false and a non-empty error, and leave the
\* post and user tables as they were, whoever calls and whatever is stored.
C2_InvalidPayloadNoMutation ==
    FormRejected =>
        /\ Refused
        /\ result.error[1] # ""
        /\ PostsUntouched
        /\ users = before.users

\* a permitted createBlog on a non-empty store answers a form without title
\* with the schema's first issue
C2_Witness ==
    /\ op = "createBlog"
    /\ caller.allowed
    /\ args.values.title = ""
    /\ before.blogPosts # {}
    /\ result.error = Some("Title is required")

\* the form of the last createBlog/updateBlog call carries the title or the
\* slug of a stored post other than the one the call updates
Collides ==
    /\ op \in {"createBlog", "updateBlog"}
    /\ \E p \in before.blogPosts :
          /\ op = "updateBlog" => p.id # args.id
          /\ p.title = args.values.title \/ p.slug = args.values.slug

DuplicateRefused ==
    /\ result = Failure("A blog with this title or slug already exists")
    /\ PostsUntouched

\* C3 as stated: every colliding createBlog/updateBlog call gets the
\* duplicate-entry error and leaves the store unchanged.
C3_AsStated == Collides => DuplicateRefused

\* C3: a colliding createBlog/updateBlog call made by a permitted caller with
\* a form that passes the schema (for updateBlog: on the id of an existing
\* post) gets the duplicate-entry error and leaves the store unchanged; every
\* other colliding call also leaves the store unchanged.
C3_CollisionRefused ==
    Collides =>
        /\ PostsUntouched
        /\ ( /\ caller.allowed
             /\ ~blogFormSchema_parse(args.values).threw
             /\ op = "updateBlog" => args.id \in IdsOf(before.blogPosts) )
           => DuplicateRefused

\* a permitted, valid updateBlog that takes over another post's title only
C3_Witness ==
    /\ op = "updateBlog"
    /\ caller.allowed
    /\ args.values \in ValidBlogForms
    /\ args.id \in IdsOf(before.blogPosts)
    /\ \E p \in before.blogPosts :
          /\ p.id # args.id
          /\ p.title = args.values.title
          /\ p.slug # args.values.slug
    /\ DuplicateRefused

\* C4: in every store that createBlog, updateBlog and deleteBlog calls build
\* from the empty store, two distinct posts differ in title and in slug.
C4_TitlesAndSlugsUnique ==
    \A p, q \in blogPosts :
        p # q => p.title # q.title /\ p.slug # q.slug /\ p.id # q.id

\* a successful updateBlog has just renamed one of two stored posts
C4_Witness ==
    /\ op = "updateBlog"
    /\ result.success
    /\ Cardinality(blogPosts) = 2
    /\ \E p \in before.blogPosts :
          p.id = args.id /\ p.title # args.values.title

\* C5: for an id no post has, deleteBlog, updateBlog with a valid form and
\* getBlog, called by a permitted caller, return "Blog post not found" and
\* leave the post store unchanged.
C5_UnknownIdNotFound ==
    ( /\ op \in {"deleteBlog", "updateBlog", "getBlog"}
      /\ caller.allowed
      /\ args.id \notin IdsOf(before.blogPosts)
      /\ op = "updateBlog" => ~blogFormSchema_parse(args.values).threw )
    => /\ result = Failure("Blog post not found")
       /\ PostsUntouched

\* a permitted deleteBlog of an id that is not among the stored posts
C5_Witness ==
    /\ op = "deleteBlog"
    /\ caller.allowed
    /\ before.blogPosts # {}
    /\ args.id \notin IdsOf(before.blogPosts)
    /\ result.error = Some("Blog post not found")

\* C6: deleteBlog(id) by a permitted caller on an existing post succeeds
\* with a message that contains the post's title, and leaves exactly the
\* previous posts without that one.
C6_DeleteRemovesExactlyOne ==
    (op = "deleteBlog" /\ caller.allowed) =>
        \A p \in before.blogPosts :
            p.id = args.id =>
                /\ result.success
                /\ result.error = undefined
                /\ result.message # undefined
                /\ Includes(result.message[1], p.title)
                /\ blogPosts = before.blogPosts \ {p}

\* a permitted deleteBlog took one of several posts away
C6_Witness ==
    /\ op = "deleteBlog"
    /\ caller.allowed
    /\ args.id \in IdsOf(before.blogPosts)
    /\ Cardinality(before.blogPosts) >= 2
    /\ result.message = Some("Blog post \"World\" deleted successfully")

\* what a stored column holds for an optional form string
StoredText(field) ==
    IF field = undefined \/ field = Some("") THEN null ELSE field

C8_PageArithmetic ==
    (op = "getPaginatedBlogs" /\ result.success) =>
        LET blogs == result.data[1].blogs
            pg    == result.data[1].pagination
        IN  /\ args.page >= 1
            /\ Len(blogs) <= args.pageSize
            /\ Range(blogs) \subseteq blogPosts
            /\ args.search = undefined => pg.totalCount = Cardinality(blogPosts)
            /\ pg.pageSize = args.pageSize
            /\ pg.currentPage = args.page
            /\ pg.totalPages * args.pageSize >= pg.totalCount
            /\ (pg.totalPages - 1) * args.pageSize < pg.totalCount
            /\ args.page = pg.totalPages =>
                   Len(blogs) = IF pg.totalCount % args.pageSize = 0
                                THEN args.pageSize
                                ELSE pg.totalCount % args.pageSize

\* the second and last page of three posts listed two by two holds one post
C8_Witness ==
    /\ op = "getPaginatedBlogs"
    /\ result.success
    /\ args.page = 2
    /\ args.pageSize = 2
    /\ result.data[1].pagination.totalCount = 3
    /\ result.data[1].pagination.totalPages = 2
    /\ Len(result.data[1].blogs) = 1

\* C9: a successful createBlog, updateBlog or deleteBlog invalidates
\* /admin/blogs and /blogs, updateBlog also /admin/blogs/<id>/edit of the id
\* it updated, and a call that returns success=false invalidates nothing.
C9_Invalidation ==
    op \in BlogMutations =>
        Range(revalidated) =
            IF ~result.success THEN {}
            ELSE IF op = "updateBlog"
                 THEN {"/admin/blogs", "/blogs",
                       "/admin/blogs/" \o ToString(args.id) \o "/edit"}
                 ELSE {"/admin/blogs", "/blogs"}

\* a successful updateBlog of post 2 invalidated that post's detail view
C9_Witness ==
    /\ op = "updateBlog"
    /\ result.success
    /\ args.id = 2
    /\ "/admin/blogs/2/edit" \in Range(revalidated)

\* C10: generatePresignedUrl reports "Unauthorized" to a caller without the
\* capability, else "Only image files are allowed" for a fileType that does
\* not start with "image/", else "File size exceeds the 5MB limit" for a
\* fileSize above 5,242,880; a storage key and URLs are generated exactly
\* when all three checks pass, and a fileSize of 5,242,880 passes.
C10_UploadChecksInOrder ==
    op = "generatePresignedUrl" =>
        LET capable == caller.allowed
            image   == /\ Len(args.fileType) >= 6
                       /\ SubSeq(args.fileType, 1, 6) = "image/"
            small   == args.fileSize <= 5242880
        IN  /\ ~capable => result = Failure("Unauthorized")
            /\ (capable /\ ~image) =>
                   result = Failure("Only image files are allowed")
            /\ (capable /\ image /\ ~small) =>
                   result = Failure("File size exceeds the 5MB limit")
            /\ (capable /\ image /\ small) <=> result.success
            /\ result.success <=> (s3Keys # <<>> /\ result.data # undefined)
            /\ PostsUntouched

\* an image of exactly 5,242,880 bytes got its key and URLs
C10_Witness ==
    /\ op = "generatePresignedUrl"
    /\ args.fileSize = 5242880
    /\ args.fileType = "image/png"
    /\ result.success
    /\ Len(s3Keys) = 1
    /\ Includes(result.data[1].fileUrl, s3Keys[1])

-----------------------------------------------------------------------------
(* Properties of the actions under failing calls *)

\* an awaited call of the last action threw
FaultStruck == op # "none" /\ "fault" \in DOMAIN args

\* the last action got as far as parsing its form, and the schema threw
ValidationThrew ==
    /\ FormRejected
    /\ IF op = "changePassword" THEN Truthy(caller.email) ELSE caller.allowed

\* C11: no error escapes an action.  Whichever awaited call of createBlog,
\* updateBlog, deleteBlog, getBlog, getPaginatedBlogs, generatePresignedUrl
\* or changePassword throws (the permission or session lookup, a store
\* query, the password hash, the URL signing), and whatever it throws, and
\* whenever the schema throws, the call returns an envelope with
\* success=false and an error; its promise never rejects, and a throwing
\* call has written nothing.
C11_NoErrorEscapes ==
    /\ thrown = undefined
    /\ (FaultStruck \/ ValidationThrew) => Refused
    /\ FaultStruck => (PostsUntouched /\ users = before.users)

\* every awaited call of every action has thrown and was answered
C11_Witness ==
    /\ FaultStruck
    /\ op = "updateBlog"
    /\ args.fault.at = "update"
    /\ args.fault.error.name # "Error"
    /\ thrown = undefined
    /\ result = Failure("Something went wrong. Please try again.")

\* the rows of a users table other than the one with this email
OtherUsers(rows, email) == {u \in rows : u.email # email}

\* the password the row with this email holds
PasswordOf(rows, email) == {u.password : u \in rows \ OtherUsers(rows, email)}

\* C12: changePassword without a session email returns success=false with
\* "Not authenticated" and changes no user row.  With a session, whatever
\* the submitted values are, the rows of all users other than the session's
\* are as they were; and when the values pass the schema the call succeeds
\* and the row with the session's email holds a hash of the new password.
\* (The current password is never compared with the stored one.)
C12_OnlyOwnPassword ==
    (op = "changePassword" /\ ~FaultStruck) =>
        IF ~Truthy(caller.email)
        THEN result = Failure("Not authenticated") /\ users = before.users
        ELSE /\ OtherUsers(users, caller.email[1])
                  = OtherUsers(before.users, caller.email[1])
             /\ {u.email : u \in users} = {u.email : u \in before.users}
             /\ ~FormRejected =>
                  /\ result.success
                  /\ \E salt \in Salts :
                        PasswordOf(users, caller.email[1])
                          = {bcryptHash(args.values.newPassword, 12, salt)}

\* a member has changed the own password, and the administrator's row is
\* as it was
C12_Witness ==
    /\ op = "changePassword"
    /\ caller = Member
    /\ result.success
    /\ args.values.currentPassword = "old-secret"
    /\ PasswordOf(users, "member@s.diu.edu.bd")
         = {bcryptHash("new-secret-1", 12, "N9qo8uLO")}
    /\ PasswordOf(users, "admin@diu.edu.bd")
         = PasswordOf(before.users, "admin@diu.edu.bd")

\* the store refused the row of the last createBlog or updateBlog call: its
\* insert or update threw the unique violation, the pre-check having passed
StoreRefusedDuplicate ==
    /\ FaultStruck
    /\ \/ op = "createBlog" /\ args.fault.at = "insert"
       \/ op = "updateBlog" /\ args.fault.at = "update"
    /\ args.fault.error = UniqueViolation

\* C13: when the store itself refuses the insert of createBlog or the update
\* of updateBlog for its uniqueness constraint, the pre-check having passed,
\* the action returns the error of the pre-check path, "A blog with this
\* title or slug already exists".
C13_StoreDuplicateSameMessage ==
    StoreRefusedDuplicate => result = Failure(DuplicateMessage)

\* what the code does return for the store's unique violation
C13_Observed ==
    StoreRefusedDuplicate =>
        result = Failure("Something went wrong. Please try again.")

C13_Witness == StoreRefusedDuplicate /\ op = "createBlog"

-----------------------------------------------------------------------------
(* Properties of the search dialogs *)

\* the query is too short to search for
TooShort(query) == Len(trim(query)) < 2

\* C14: in both dialogs, when the query text changes to a value whose
\* trimmed length is below 2, no search request is issued for it, and once
\* the debounce has elapsed on it the result list is empty; the debounce
\* issues a search request only for a query of trimmed length >= 2.
C14_ShortQueryClears ==
    /\ (ev.kind \in {"type", "debounce"} /\ TooShort(searchQuery)) =>
           ev.issued = <<>>
    /\ (ev.kind = "debounce" /\ TooShort(debouncedSearch)) =>
           searchResults = <<>>
    /\ (ev.kind = "debounce" /\ ev.issued # <<>>) =>
           (ev.issued = <<debouncedSearch>> /\ ~TooShort(debouncedSearch))

\* C14 for AttachEventDialog alone, whose effect has the else branch
C14_AttachDialogClears == dialog = AttachEventDialog => C14_ShortQueryClears

\* the debounce has elapsed on a short query while the user dialog lists
\* users: the list stays
C14_Witness ==
    /\ dialog = UserSearchDialog
    /\ ev.kind = "debounce"
    /\ debouncedSearch = "c "
    /\ searchResults # <<>>

\* the search response that has just settled carried items
Fulfilled(response) ==
    ~response.rejected /\ response.success /\ response.data # undefined

\* list is a sublist of items, in their order (lists without repetition)
IsSublist(list, items) ==
    /\ Range(list) \subseteq Range(items)
    /\ Cardinality(Range(list)) = Len(list)
    /\ \A i, j \in DOMAIN list :
          i < j => \E a, b \in DOMAIN items :
                       a < b /\ items[a] = list[i] /\ items[b] = list[j]

\* the list shows what the settled search returned: all returned users, the
\* returned events that match the request's query
ShowsReturned(request, response) ==
    IF dialog = UserSearchDialog
    THEN searchResults = response.data[1]
    ELSE /\ IsSublist(searchResults, response.data[1])
         /\ Range(searchResults)
              = {e \in Range(response.data[1]) : matchesQuery(e, request.query)}

\* C15: overlapping searches are never cancelled or discarded: whichever
\* request settles, also one that a later request has overtaken, sets the
\* list, so with several in flight the list is that of the request which
\* settled last, and the response to an older query replaces the results of
\* a newer one.
C15_LastResolvedWins ==
    ev.kind = "searchResolved" =>
        IF Fulfilled(ev.response[1])
        THEN ShowsReturned(ev.request[1], ev.response[1])
        ELSE searchResults = <<>>

\* two searches were in flight, the later settled first, and the list now
\* shows what the earlier one returned
C15_Witness ==
    /\ ev.kind = "searchResolved"
    /\ ev.request[1].overtaken
    /\ searches = <<>>
    /\ Fulfilled(ev.response[1])
    /\ searchResults = ev.response[1].data[1]
    /\ searchResults # <<>>

\* the toast raised by the step that has just run
Raised(type) == ev.toast # <<>> /\ ev.toast[1].type = type

\* C16: when a search settles with success the list becomes exactly the
\* returned items (for events: those that match the query), possibly none;
\* when it settles with success=false or rejects, an error toast is raised
\* and the list becomes empty; either way the searching flag is cleared.
C16_SearchOutcome ==
    ev.kind = "searchResolved" =>
        LET response == ev.response[1]
        IN  /\ isSearching = FALSE
            /\ Fulfilled(response) =>
                   ShowsReturned(ev.request[1], response) /\ ev.toast = <<>>
            /\ (~response.rejected /\ response.success
                  /\ response.data = undefined) => searchResults = <<>>
            /\ (response.rejected \/ ~response.success) =>
                   Raised("error") /\ searchResults = <<>>

\* the attach dialog lists the one returned event that matches, not both
C16_Witness ==
    /\ dialog = AttachEventDialog
    /\ ev.kind = "searchResolved"
    /\ Fulfilled(ev.response[1])
    /\ Len(ev.response[1].data[1]) = 2
    /\ Len(searchResults) = 1
    /\ ~isSearching

\* the add / attach request that has just settled was answered with success
Added ==
    /\ ev.kind = "addResolved"
    /\ ~ev.response[1].rejected
    /\ ev.response[1].success

\* C17 as stated: when the add / attach action returns success, exactly that
\* item is removed from the list (the others kept in order), its weight
\* entry is deleted, and the success callback is invoked once with the data
\* the action returned; when the action fails or rejects, list and weights
\* are unchanged and the callback is not invoked.
C17_AsStated ==
    ev.kind = "addResolved" =>
        IF Added
        THEN /\ searchResults
                  = filterOut(ev.was.searchResults, ev.request[1].id)
             /\ eventWeights
                  = withoutWeight(ev.was.eventWeights, ev.request[1].id)
             /\ ev.callback = << <<ev.response[1].data>> >>
        ELSE /\ searchResults = ev.was.searchResults
             /\ eventWeights = ev.was.eventWeights
             /\ ev.callback = <<>>

\* the handler of the settled add had closed over a one-item list and a
\* query that handleSearch refuses: its refresh empties the list
RefreshEmpties ==
    /\ dialog = UserSearchDialog
    /\ ev.request[1].seenLength = 1
    /\ (trim(ev.request[1].seenQuery) = "" \/ Len(ev.request[1].seenQuery) < 2)

\* C17: when the add / attach action returns success, that item is removed
\* from the list as it is when the response arrives and the others are kept
\* in order, except that UserSearchDialog empties the whole list when the
\* clicked render showed one item under a debounced query too short to
\* search; the item's weight entry is deleted (attach variant); and the
\* success callback is invoked once: onUserAdded with the data the action
\* returned, onSuccess of AttachEventDialog with no argument.  When the
\* action fails or rejects, list and weights are unchanged and the callback
\* is not invoked.
C17_AddOutcome ==
    ev.kind = "addResolved" =>
        IF Added
        THEN /\ searchResults
                  = IF RefreshEmpties THEN <<>>
                    ELSE filterOut(ev.was.searchResults, ev.request[1].id)
             /\ eventWeights
                  = withoutWeight(ev.was.eventWeights, ev.request[1].id)
             /\ ev.callback
                  = IF dialog = UserSearchDialog
                    THEN << <<ev.response[1].data>> >>
                    ELSE << <<>> >>
             /\ Raised("success")
        ELSE /\ searchResults = ev.was.searchResults
             /\ eventWeights = ev.was.eventWeights
             /\ ev.callback = <<>>
             /\ Raised("error")

\* an attach has succeeded: the event and its entered weight are gone, the
\* other event is still listed, and onSuccess was called without the data
C17_Witness ==
    /\ dialog = AttachEventDialog
    /\ Added
    /\ ev.response[1].data # undefined
    /\ ev.callback = << <<>> >>
    /\ Len(ev.was.searchResults) = 2
    /\ Len(searchResults) = 1
    /\ weightEntry(ev.was.eventWeights, ev.request[1].id) # undefined
    /\ weightEntry(eventWeights, ev.request[1].id) = undefined

\* the refresh of a successful add has emptied a list that held other users
C17_ListEmptied ==
    /\ Added
    /\ RefreshEmpties
    /\ filterOut(ev.was.searchResults, ev.request[1].id) # <<>>


\* the successful add / attach that has just settled removed the item that
\* was the only entry of the list
RemovedSoleEntry ==
    /\ Added
    /\ Len(ev.was.searchResults) = 1
    /\ ev.was.searchResults[1].id = ev.request[1].id

\* C18 as stated: whenever a successful add / attach removes the item that
\* was the sole remaining entry of the result list, the search is re-issued,
\* for every interleaving of add requests, search responses and query edits
\* between the click and the arrival of the add response.
C18_RefreshAfterSoleEntry == RemovedSoleEntry => ev.issued # <<>>

\* the clicked render listed two items under a query long enough to search;
\* a search response shortened the list to the clicked item before the add
\* settled; the add removed that last item and no search was issued
C18_Witness ==
    /\ RemovedSoleEntry
    /\ ev.request[1].seenLength = 2
    /\ Len(trim(ev.request[1].seenQuery)) >= 2
    /\ searchResults = <<>>
    /\ ev.issued = <<>>
    /\ searches = <<>>


\* C19: every transition of a dialog from closed to open resets the query
\* text to the empty string, the result list to empty and (attach variant)
\* the per-event weight map to empty, whatever their values were before.
C19_OpenResets ==
    ev.kind = "open" =>
        /\ open
        /\ searchQuery = ""
        /\ searchResults = <<>>
        /\ eventWeights = {}

\* the attach dialog was closed with a query, a listed event and an entered
\* weight, and has been opened again
C19_Witness ==
    /\ dialog = AttachEventDialog
    /\ ev.kind = "open"
    /\ ev.was.searchQuery # ""
    /\ ev.was.searchResults # <<>>
    /\ ev.was.eventWeights # {}


(***************************************************************************)
(* Properties of the weight of an attached event                           *)
(***************************************************************************)

\* 0.0 <= v <= 1.0
InUnitInterval(v) == ~v.nan /\ (v.neg => v.num = 0) /\ v.num <= v.den

\* parseFloat("1.0")
One == [nan |-> FALSE, neg |-> FALSE, num |-> 10, den |-> 10]

\* some listed event has an entered weight the client-side check refuses
RefusedWeightListed ==
    \E k \in DOMAIN searchResults :
        LET entry == weightEntry(eventWeights, searchResults[k].id)
        IN  /\ entry # undefined
            /\ entry[1] # ""
            /\ ~InUnitInterval(parseFloat(entry[1]))

\* C20: the event-attach dialog never invokes attachEventToRanklist with a
\* weight outside [0.0, 1.0]: an event with no weight entered (none, or a
\* field cleared to "", which the input shows as 1.0) is attached with
\* weight 1.0, the weight sent is the entered one, and a click on an event
\* whose entered weight does not parse to a number in [0.0, 1.0] raises the
\* error notification, sends no request and leaves the result list and the
\* weights unchanged.
C20_WeightInRange ==
    dialog = AttachEventDialog =>
        /\ \A i \in DOMAIN adds : InUnitInterval(adds[i].weight[1])
        /\ ev.kind = "click" =>
             /\ searchResults = ev.was.searchResults
             /\ eventWeights = ev.was.eventWeights
             /\ ev.issued = <<>>
             /\ IF ev.sent = <<>>
                THEN /\ RefusedWeightListed
                     /\ ev.toast
                          = Toast("error", "Weight must be between 0.0 and 1.0")
                ELSE LET request == ev.sent[1]
                         entry   == weightEntry(eventWeights, request.id)
                     IN  /\ ev.toast = <<>>
                         /\ InUnitInterval(request.weight[1])
                         /\ request.weight[1]
                              = IF entry = undefined \/ entry[1] = ""
                                THEN One
                                ELSE parseFloat(entry[1])

\* an event without an entered weight is being attached with weight 1.0,
\* and a click on an event with the entered weight 1.5 has just been refused
C20_Witness ==
    /\ dialog = AttachEventDialog
    /\ Len(adds) = 1
    /\ adds[1].weight[1] = One
    /\ weightEntry(eventWeights, adds[1].id) = undefined
    /\ ev.kind = "click"
    /\ ev.sent = <<>>
    /\ \E e \in eventWeights : e.value = "1.5"
    /\ Raised("error")


(***************************************************************************)
(* Properties of the order of the steps of a call                          *)
(***************************************************************************)

\* the call that has just returned is a createBlog or an updateBlog
Mutating == op \in {"createBlog", "updateBlog"}

PermissionDenied == Failure("You don't have permission to manage blog posts")

\* the validation error the call's payload earns
ValidationError == BlogZodError(blogFormSchema_issues(args.values))

\* C22 as stated: createBlog and updateBlog validate the payload before
\* they check the permission: a caller without permission who submits an
\* invalid payload receives the validation error.
C22_ValidationFirst ==
    (Mutating /\ ~caller.allowed /\ blogFormSchema_parse(args.values).threw)
        => result = ValidationError

\* C22: createBlog and updateBlog process a request in the order: check
\* permission, validate the payload, look the store up and mutate it,
\* invalidate cached pages.  A caller without permission receives the
\* permission error, also with an invalid payload; a permitted caller with
\* an invalid payload receives the validation error, also for an unknown id
\* or a colliding title; neither touches the store or the cache; and pages
\* are invalidated exactly by the calls that return success.
C22_PermissionFirst ==
    Mutating =>
        /\ ~caller.allowed =>
               /\ result = PermissionDenied
               /\ blogPosts = before.blogPosts
               /\ revalidated = <<>>
        /\ (caller.allowed /\ blogFormSchema_parse(args.values).threw) =>
               /\ result = ValidationError
               /\ blogPosts = before.blogPosts
               /\ revalidated = <<>>
        /\ result.success <=> revalidated # <<>>
        /\ blogPosts # before.blogPosts => result.success

\* a caller without permission has submitted an invalid payload to
\* updateBlog and has received the permission error
C22_Witness ==
    /\ op = "updateBlog"
    /\ ~caller.allowed
    /\ blogFormSchema_parse(args.values).threw
    /\ result = PermissionDenied
    /\ result # ValidationError


-----------------------------------------------------------------------------
(* Properties of interleaved calls *)

\* the createBlog that has just returned had passed its pre-check and has
\* run its insert
InsertRan ==
    /\ op = "createBlog"
    /\ caller.allowed
    /\ ~blogFormSchema_parse(args.values).threw
    /\ result.error # Some(DuplicateMessage)

\* the posts the insert found in the store that share the new post's slug,
\* and those that share its title
SameSlug == {p \in before.blogPosts : p.slug = args.values.slug}
SameTitle == {p \in before.blogPosts : p.title = args.values.title}

\* C21: when createBlog calls carrying the same title or slug interleave so
\* that their pre-checks run before either insert, the pre-checks pass and
\* nothing in createBlog stops the second insert: it fails exactly when the
\* store's own uniqueness constraint refuses the row, leaving the store as
\* it was, and it succeeds beside a post of the same title that the
\* constraint does not cover.  The constraint alone keeps two posts from
\* sharing a slug.
C21_OnlyTheStoreStopsTheInsert ==
    /\ \A p, q \in blogPosts : p # q => p.slug # q.slug
    /\ InsertRan =>
           /\ result.success <=> SameSlug = {}
           /\ ~result.success =>
                  /\ blogPosts = before.blogPosts
                  /\ result = handleDbError(UniqueViolation)
           /\ result.success =>
                  \E p \in blogPosts \ before.blogPosts :
                      /\ p.title = args.values.title
                      /\ p.slug = args.values.slug

\* two createBlog calls with the same title and slug had both passed the
\* pre-check; the first has inserted its post, and the insert of the second
\* has just been refused by the store
C21_Witness ==
    /\ InsertRan
    /\ ~result.success
    /\ SameSlug # {}
    /\ SameTitle # {}
    /\ blogPosts = before.blogPosts

\* two createBlog calls with one title and two slugs had both passed the
\* pre-check, and the store now holds two posts with that title
C21_SharedTitle ==
    /\ InsertRan
    /\ result.success
    /\ SameTitle # {}
    /\ \E p, q \in blogPosts : p # q /\ p.title = q.title

\* two createBlog calls that collide are suspended between their pre-check
\* and their insert
C21_BothPassed ==
    \E c, d \in Suspended :
        /\ c.name = "createBlog" /\ d.name = "createBlog"
        /\ c.pc = "insert" /\ d.pc = "insert"
        /\ c.args.values.title = d.args.values.title
        /\ c # d \/ CopiesIn(c, calls) = 2


\* C23: deleteBlog and updateBlog report success only for a post that
\* exists when the mutation is applied: of two interleaved deleteBlog calls
\* on one id at most one returns success, and no updateBlog returns success
\* for an id whose post was deleted between its existence check and its
\* update.
C23_SuccessOnlyForExisting ==
    (op \in {"deleteBlog", "updateBlog"} /\ result.success)
        => selectById(before.blogPosts, args.id) # {}

\* an updateBlog has returned success, with the updated fields as data and
\* the pages invalidated, for a post that a deleteBlog had removed after the
\* existence check: its update matched no row
C23_Witness ==
    /\ op = "updateBlog"
    /\ result.success
    /\ result.message = Some("Blog post updated successfully")
    /\ selectById(before.blogPosts, args.id) = {}
    /\ blogPosts = before.blogPosts
    /\ revalidated # <<>>

\* a second deleteBlog has returned success for a post already deleted
C23_DeletedTwice ==
    /\ op = "deleteBlog"
    /\ result.success
    /\ selectById(before.blogPosts, args.id) = {}


\* the most posts a page may hold under the reported total
PageAllows(page, pageSize, totalCount) ==
    LET left == totalCount - (page - 1) * pageSize
    IN  IF left <= 0 THEN 0 ELSE IF left < pageSize THEN left ELSE pageSize

\* C24: the post slice and the totalCount returned by one getPaginatedBlogs
\* call describe a single state of the post store, also when createBlog or
\* deleteBlog calls run concurrently with it: the number of returned posts
\* never exceeds what page, pageSize and the returned totalCount allow.
C24_SliceWithinCount ==
    (op = "getPaginatedBlogs" /\ result.success) =>
        LET data == result.data[1]
        IN  Len(data.blogs)
              <= PageAllows(args.page, args.pageSize, data.pagination.totalCount)

\* a listing has returned a post together with totalCount 0 and totalPages
\* 0: a deleteBlog ran between its two queries
C24_Witness ==
    /\ op = "getPaginatedBlogs"
    /\ result.success
    /\ Len(result.data[1].blogs) = 1
    /\ result.data[1].pagination.totalCount = 0
    /\ result.data[1].pagination.totalPages = 0
    /\ blogPosts = {}


-----------------------------------------------------------------------------
(* Properties of the loading flags of the dialogs *)

\* C25: in both dialogs the searching flag is true exactly while at least
\* one search request is in flight: it is never false while a request is
\* still pending, including when several search requests overlap.
C25_SearchingWhilePending == isSearching <=> searches # <<>>

\* two searches overlapped; the first to settle has cleared the flag and
\* listed its results while the other is still pending
C25_Witness ==
    /\ ev.kind = "searchResolved"
    /\ ~isSearching
    /\ searches # <<>>
    /\ searchResults # <<>>

\* the flag is never set without a search in flight
C25_SetOnlyWhilePending == isSearching => searches # <<>>


\* the Add / Attach button of the item is disabled
ButtonDisabled(id) == isAdding = Some(id)

\* C26: in both dialogs, for any one item at most one add / attach request
\* is in flight at a time: while an item's request is pending its button
\* stays disabled, also when add / attach requests for other items are
\* started or complete in the meantime.
C26_OneRequestPerItem ==
    /\ \A i, j \in DOMAIN adds : i # j => adds[i].id # adds[j].id
    /\ \A i \in DOMAIN adds : ButtonDisabled(adds[i].id)

\* two requests for the same item are in flight: while the first was
\* pending a request for another item was started or has completed, which
\* enabled the item's button again, and the button was clicked once more
C26_Witness ==
    /\ Len(adds) = 2
    /\ adds[1].id = adds[2].id
    /\ ev.kind = "click"
    /\ ButtonDisabled(adds[1].id)


(***************************************************************************)
(* Properties of the reopened dialogs                                      *)
(***************************************************************************)

\* C27: after a dialog has been reopened and until the user enters a new
\* query, its result list stays empty: the response to a search request
\* issued before the reopen does not repopulate the list.
C27_EmptyUntilNewQuery == pristine => searchResults = <<>>

\* the dialog was reopened with a search still in flight, no query has
\* been typed since, and the response of that search has filled the list
\* under the empty search input
C27_Witness ==
    /\ pristine
    /\ open
    /\ ev.kind = "searchResolved"
    /\ searchQuery = ""
    /\ searchResults # <<>>

\* the reset of the reopen itself leaves the list empty
C27_EmptyRightAfterOpen == ev.kind = "open" => searchResults = <<>>


(***************************************************************************)
(* Properties of the dialogs at rest                                       *)
(***************************************************************************)

\* no loading flag is set
AtRest == ~isSearching /\ isAdding = null

\* C28: assuming every search and add / attach request eventually resolves
\* or rejects and the user eventually stops acting, each dialog eventually
\* reaches a state in which isSearching is false and the adding / attaching
\* marker is null; no loading flag stays set for ever, whether the requests
\* succeed, fail or throw.
C28_FlagsEventuallyClear == (<>[][~UserActs]_vars) => <>[]AtRest

\* the last request in flight, an add or attach, has rejected and both
\* flags are clear
C28_Witness ==
    /\ ev.kind = "addResolved"
    /\ ev.response[1].rejected
    /\ searches = <<>>
    /\ adds = <<>>
    /\ AtRest

\* the last request in flight, a search, has rejected and both flags are
\* clear
C28_SearchRejected ==
    /\ ev.kind = "searchResolved"
    /\ ev.response[1].rejected
    /\ searches = <<>>
    /\ adds = <<>>
    /\ AtRest

\* with nothing in flight no flag is set
C28_ClearWhenNothingInFlight == searches = <<>> /\ adds = <<>> => AtRest

=============================================================================
